---- MODULE Spec2Model ----
(***************************************************************************)
(* The pool query pipeline of the liquidity-pool REST API                  *)
(* (src/src/api/server.js): GET /v1/evm/pools validates its query          *)
(* parameters, awaits fetchAllDexData, filters, paginates and formats the  *)
(* pools and answers 200, 400 or 500.                                      *)
(*                                                                         *)
(* JavaScript strings that the code takes apart (parseInt, split, trim,    *)
(* toLowerCase, template strings) are sequences of one-character strings;  *)
(* strings that are only compared or used as property keys (network and    *)
(* protocol keys, chain and DEX display names, messages) are TLA+ strings. *)
(***************************************************************************)
EXTENDS Integers, Sequences, FiniteSets, TLC

\* ------------------------------------------------------------------ bounds

\* Longest pool list of a small DexData snapshot.
MaxPools == 3

\* Size of the one large snapshot (more pools than the largest page).
BigTotal == 1001

\* --------------------------------------------------------- JavaScript values

\* `undefined` where a character-sequence string is expected (an absent
\* query parameter).
Undefined == <<"undefined">>

\* `null` where a character-sequence string is expected (pool.id, pool.factory).
Null == <<"null">>

\* A query parameter that the query-string parser delivers as an array
\* (?factory=a&factory=b): a truthy value without a split method.
ArrayValue == <<"array">>

\* `undefined` where a key or display name is expected.
NoKey == "undefined"

\* A member that every object literal inherits from Object.prototype.
Inherited == "[inherited from Object.prototype]"

\* The property names an object literal inherits from Object.prototype.
ObjectPrototypeKeys ==
  { "constructor", "toString", "valueOf", "hasOwnProperty", "isPrototypeOf",
    "propertyIsEnumerable", "toLocaleString", "__proto__", "__defineGetter__",
    "__defineSetter__", "__lookupGetter__", "__lookupSetter__" }

\* obj[key] on an object literal: the own property, else the inherited
\* member, else undefined.
ObjectLookup(obj, key) ==
  IF key \in DOMAIN obj THEN obj[key]
  ELSE IF key \in ObjectPrototypeKeys THEN Inherited
  ELSE NoKey

\* Truthiness of a key or display-name value.
TruthyKey(k) == k # NoKey /\ k # ""

\* Truthiness of a character-sequence value (string, array, null or undefined).
Truthy(s) == s # Undefined /\ s # Null /\ s # <<>>

\* A number: an integer or NaN.
Num(v) == [nan |-> FALSE, val |-> v]

NaN == [nan |-> TRUE, val |-> 0]

isNaN(n) == n.nan

\* a < b on numbers: false whenever NaN is involved.
LessThan(a, b) == ~a.nan /\ ~b.nan /\ a.val < b.val

\* n || d on a number: NaN and 0 are falsy.
OrDefault(n, d) == IF n.nan \/ n.val = 0 THEN d ELSE n.val

Min(a, b) == IF a < b THEN a ELSE b

Max(a, b) == IF a > b THEN a ELSE b

\* ----------------------------------------------------------- String methods

IsSpace(c) == c = " "

toLowerCaseChar(c) ==
  CASE c = "A" -> "a"
    [] c = "B" -> "b"
    [] c = "C" -> "c"
    [] c = "D" -> "d"
    [] c = "E" -> "e"
    [] c = "F" -> "f"
    [] c = "P" -> "p"
    [] c = "X" -> "x"
    [] OTHER -> c

\* String.prototype.toLowerCase
toLowerCase(s) == [i \in 1..Len(s) |-> toLowerCaseChar(s[i])]

RECURSIVE trimStart(_)
trimStart(s) ==
  IF s # <<>> /\ IsSpace(Head(s)) THEN trimStart(Tail(s)) ELSE s

RECURSIVE trimEnd(_)
trimEnd(s) ==
  IF s # <<>> /\ IsSpace(s[Len(s)]) THEN trimEnd(SubSeq(s, 1, Len(s) - 1)) ELSE s

\* String.prototype.trim
trim(s) == trimEnd(trimStart(s))

\* String.prototype.split(','): the pieces between the commas, empty pieces
\* included; the empty string gives one empty piece.
RECURSIVE split(_)
split(s) ==
  IF \E i \in 1..Len(s) : s[i] = ","
  THEN LET i == CHOOSE j \in 1..Len(s) :
                  s[j] = "," /\ \A k \in 1..(j - 1) : s[k] # ","
       IN <<SubSeq(s, 1, i - 1)>> \o split(SubSeq(s, i + 1, Len(s)))
  ELSE <<s>>

\* Array.prototype.includes
includes(arr, x) == \E i \in 1..Len(arr) : arr[i] = x

\* The value of a digit in radix 16, or -1.
DigitValue(c) ==
  CASE c = "0" -> 0 [] c = "1" -> 1 [] c = "2" -> 2 [] c = "3" -> 3
    [] c = "4" -> 4 [] c = "5" -> 5 [] c = "6" -> 6 [] c = "7" -> 7
    [] c = "8" -> 8 [] c = "9" -> 9
    [] c \in {"a", "A"} -> 10 [] c \in {"b", "B"} -> 11
    [] c \in {"c", "C"} -> 12 [] c \in {"d", "D"} -> 13
    [] c \in {"e", "E"} -> 14 [] c \in {"f", "F"} -> 15
    [] OTHER -> -1

IsDigit(c, radix) == DigitValue(c) >= 0 /\ DigitValue(c) < radix

\* The longest prefix of s made of digits of the radix.
RECURSIVE DigitPrefix(_, _)
DigitPrefix(s, radix) ==
  IF s # <<>> /\ IsDigit(Head(s), radix)
  THEN <<Head(s)>> \o DigitPrefix(Tail(s), radix)
  ELSE <<>>

RECURSIVE DigitsToInt(_, _, _)
DigitsToInt(ds, radix, acc) ==
  IF ds = <<>> THEN acc
  ELSE DigitsToInt(Tail(ds), radix, acc * radix + DigitValue(Head(ds)))

\* parseInt(s) without a radix: leading white space and a sign are skipped,
\* a 0x prefix selects radix 16, the longest digit prefix is converted and
\* the rest ignored; NaN when there is no digit.
parseInt(s) ==
  LET t     == trimStart(s)
      neg   == t # <<>> /\ Head(t) = "-"
      u     == IF t # <<>> /\ Head(t) \in {"-", "+"} THEN Tail(t) ELSE t
      hex   == Len(u) >= 2 /\ u[1] = "0" /\ u[2] \in {"x", "X"}
      radix == IF hex THEN 16 ELSE 10
      v     == IF hex THEN SubSeq(u, 3, Len(u)) ELSE u
      ds    == DigitPrefix(v, radix)
  IN IF ds = <<>> THEN NaN
     ELSE Num((IF neg THEN -1 ELSE 1) * DigitsToInt(ds, radix, 0))

\* Array.prototype.slice(start, end): negative indices count from the end,
\* both are clamped to the array, an empty range gives the empty array.
slice(items, start, end) ==
  LET len  == Len(items)
      from == IF start < 0 THEN Max(len + start, 0) ELSE Min(start, len)
      to   == IF end < 0 THEN Max(len + end, 0) ELSE Min(end, len)
  IN IF to > from THEN SubSeq(items, from + 1, to) ELSE <<>>

\* A bigint is held as the sequence of its digits in this base, the most
\* significant first and without leading zero digits (zero is <<0>>): its
\* value may exceed every machine integer.
BigIntBase == 32768

\* BigInt(n) of a non-negative integer.
RECURSIVE BigInt(_)
BigInt(n) ==
  IF n < BigIntBase THEN <<n>>
  ELSE BigInt(n \div BigIntBase) \o <<n % BigIntBase>>

\* The decimal digit of a value below ten.
DigitChar(d) ==
  CASE d = 0 -> "0" [] d = 1 -> "1" [] d = 2 -> "2" [] d = 3 -> "3"
    [] d = 4 -> "4" [] d = 5 -> "5" [] d = 6 -> "6" [] d = 7 -> "7"
    [] d = 8 -> "8" [] d = 9 -> "9"

\* A bigint without its leading zero digits.
RECURSIVE StripLeadingZeros(_)
StripLeadingZeros(n) ==
  IF Len(n) > 1 /\ Head(n) = 0 THEN StripLeadingZeros(Tail(n)) ELSE n

\* Long division of a bigint by ten from digit i on, rem being the remainder
\* carried in and quot the quotient digits so far.
RECURSIVE DivideByTen(_, _, _, _)
DivideByTen(n, i, rem, quot) ==
  IF i > Len(n) THEN [quot |-> StripLeadingZeros(quot), rem |-> rem]
  ELSE LET cur == rem * BigIntBase + n[i]
       IN DivideByTen(n, i + 1, cur % 10, Append(quot, cur \div 10))

\* BigInt.prototype.toString of a non-negative bigint: its decimal digits,
\* the last one being the remainder of the division by ten.
RECURSIVE toString(_)
toString(n) ==
  IF Len(n) = 1 /\ n[1] < 10 THEN <<DigitChar(n[1])>>
  ELSE LET d == DivideByTen(n, 1, 0, <<>>)
       IN toString(d.quot) \o <<DigitChar(d.rem)>>

\* Number(n) of a bigint, back as a bigint: a double holds 53 bits, so of the
\* values from 2^53 to 2^54 only the even ones are kept.
ToNumber(n) ==
  IF Len(n) = 4 /\ n[1] \in 256..511
  THEN [n EXCEPT ![4] = n[4] - (n[4] % 2)]
  ELSE n

\* -------------------------------------------------------- program constants

\* Object.keys(NETWORK_MAPPING), in insertion order.
NETWORK_KEYS ==
  << "arbitrum-one", "avalanche", "base", "bsc", "mainnet", "optimism",
     "polygon", "unichain" >>

\* Network ID mapping to chain names.
NETWORK_MAPPING ==
  ("arbitrum-one" :> "Arbitrum") @@ ("avalanche" :> "Avalanche") @@
  ("base" :> "Base") @@ ("bsc" :> "BSC") @@ ("mainnet" :> "Ethereum") @@
  ("optimism" :> "Optimism") @@ ("polygon" :> "Polygon") @@
  ("unichain" :> "Unichain")

\* Object.keys(PROTOCOL_MAPPING), in insertion order.
PROTOCOL_KEYS == << "uniswap_v2", "uniswap_v3", "uniswap_v4" >>

\* Protocol mapping.
PROTOCOL_MAPPING ==
  ("uniswap_v2" :> "Uniswap V2") @@ ("uniswap_v3" :> "Uniswap V3") @@
  ("uniswap_v4" :> "Uniswap V4")

\* page when the parameter is absent or falsy.
DEFAULT_PAGE == 1

\* limit when the parameter is absent or falsy.
DEFAULT_LIMIT == 10

\* The largest effective limit.
MAX_LIMIT == 1000

\* decimals of a token that does not resolve (or whose decimals are falsy).
DEFAULT_DECIMALS == 18

\* ------------------------------------------------------------- the pipeline

\* pool[k], undefined when the record has no such property.
Field(pool, k) == IF k \in DOMAIN pool THEN pool[k] ELSE Undefined

\* value.split(',').map(x => x.toLowerCase().trim())
SplitList(value) ==
  LET parts == split(value)
  IN [i \in 1..Len(parts) |-> trim(toLowerCase(parts[i]))]

\* The list parameters, in the order filterPools reads them.
LIST_PARAMS == << "factory", "pool", "input_token", "output_token" >>

\* filterPools throws a TypeError when a truthy list parameter has no split
\* method (an array).
filterPoolsThrows(query) ==
  \E i \in 1..Len(LIST_PARAMS) : query[LIST_PARAMS[i]] = ArrayValue

\* The TypeError filterPools throws: that of the first such parameter.
filterPoolsError(query) ==
  LET i == CHOOSE j \in 1..Len(LIST_PARAMS) :
                  /\ query[LIST_PARAMS[j]] = ArrayValue
                  /\ \A k \in 1..(j - 1) : query[LIST_PARAMS[k]] # ArrayValue
  IN [type |-> "Error",
      message |-> <<"query.", LIST_PARAMS[i], ".split is not a function">>]

\* A network filter that compares the chain with the network key itself
\* instead of the mapped chain name.
FilterByNetworkRawKey(filtered, query) ==
  IF TruthyKey(query.network)
  THEN SelectSeq(filtered, LAMBDA pool : pool.chain = query.network)
  ELSE filtered

\* Filter by network: a truthy parameter whose mapped chain name is truthy
\* keeps the pools of that chain; anything else keeps the list as it is.
FilterByNetwork(filtered, query) ==
  IF TruthyKey(query.network)
  THEN LET chainName == ObjectLookup(NETWORK_MAPPING, query.network)
       IN IF TruthyKey(chainName)
          THEN SelectSeq(filtered, LAMBDA pool : pool.chain = chainName)
          ELSE filtered
  ELSE filtered

\* A factory filter that compares the stored address as it is.
FilterByFactoryCaseSensitive(filtered, query) ==
  IF Truthy(query.factory)
  THEN LET factories == SplitList(query.factory)
       IN SelectSeq(filtered, LAMBDA pool :
            /\ Truthy(Field(pool, "factory"))
            /\ includes(factories, pool.factory))
  ELSE filtered

\* Filter by factory address.
FilterByFactory(filtered, query) ==
  IF Truthy(query.factory)
  THEN LET factories == SplitList(query.factory)
       IN SelectSeq(filtered, LAMBDA pool :
            /\ Truthy(Field(pool, "factory"))
            /\ includes(factories, toLowerCase(pool.factory)))
  ELSE filtered

\* A pool-address filter that stops at the first match (find for filter).
FilterByPoolFirstMatch(filtered, query) ==
  IF Truthy(query.pool)
  THEN LET poolAddresses == SplitList(query.pool)
           matches == SelectSeq(filtered, LAMBDA pool :
                        /\ Truthy(Field(pool, "id"))
                        /\ includes(poolAddresses, toLowerCase(pool.id)))
       IN SubSeq(matches, 1, Min(1, Len(matches)))
  ELSE filtered

\* Filter by pool address.
FilterByPool(filtered, query) ==
  IF Truthy(query.pool)
  THEN LET poolAddresses == SplitList(query.pool)
       IN SelectSeq(filtered, LAMBDA pool :
            /\ Truthy(Field(pool, "id"))
            /\ includes(poolAddresses, toLowerCase(pool.id)))
  ELSE filtered

\* A directional input-token filter: the token must be token0.
FilterByInputTokenDirectional(filtered, query) ==
  IF Truthy(query.input_token)
  THEN LET inputTokens == SplitList(query.input_token)
       IN SelectSeq(filtered, LAMBDA pool :
            includes(inputTokens, toLowerCase(pool.token0)))
  ELSE filtered

\* Filter by input token (token0 or token1).
FilterByInputToken(filtered, query) ==
  IF Truthy(query.input_token)
  THEN LET inputTokens == SplitList(query.input_token)
       IN SelectSeq(filtered, LAMBDA pool :
            \/ includes(inputTokens, toLowerCase(pool.token0))
            \/ includes(inputTokens, toLowerCase(pool.token1)))
  ELSE filtered

\* Filter by output token (token0 or token1).
FilterByOutputToken(filtered, query) ==
  IF Truthy(query.output_token)
  THEN LET outputTokens == SplitList(query.output_token)
       IN SelectSeq(filtered, LAMBDA pool :
            \/ includes(outputTokens, toLowerCase(pool.token0))
            \/ includes(outputTokens, toLowerCase(pool.token1)))
  ELSE filtered

\* Filter by protocol.
FilterByProtocol(filtered, query) ==
  IF TruthyKey(query.protocol)
  THEN LET protocolName == ObjectLookup(PROTOCOL_MAPPING, query.protocol)
       IN IF TruthyKey(protocolName)
          THEN SelectSeq(filtered, LAMBDA pool : pool.dexName = protocolName)
          ELSE filtered
  ELSE filtered

\* Filter pools by query parameters: the six filters in the code's order, each
\* applied to what the previous one kept.
filterPools(pools, query) ==
  FilterByProtocol(
    FilterByOutputToken(
      FilterByInputToken(
        FilterByPool(
          FilterByFactory(
            FilterByNetwork(pools, query), query), query), query), query), query)

\* A filterPools that filters the array it is given in place.
filterPoolsInPlace(pools, query) == filterPools(pools, query)

\* The array passed to filterPools as the call leaves it: `let filtered =
\* pools` only aliases it, every step rebinds filtered to the new array that
\* Array.prototype.filter returns, and the callbacks only read their pool.
filterPoolsInput(pools, query) == pools

\* A pagination that takes the page number as 0-indexed.
paginateZeroIndexed(items, page, limit) ==
  slice(items, page * limit, page * limit + limit)

\* Apply pagination to results.
paginate(items, page, limit) ==
  LET startIndex == (page - 1) * limit
      endIndex   == startIndex + limit
  IN slice(items, startIndex, endIndex)

\* The token map of the handler: tokenMap[token.address] = token for each
\* token in turn, so the last token of an address is the one kept.
BuildTokenMap(tokens) ==
  [a \in {tokens[i].address : i \in 1..Len(tokens)} |->
     LET last == CHOOSE i \in 1..Len(tokens) :
                   /\ tokens[i].address = a
                   /\ \A j \in (i + 1)..Len(tokens) : tokens[j].address # a
     IN tokens[last]]

\* tokens[address]?.symbol || 'UNKNOWN'
SymbolOf(tokens, address) ==
  IF address \in DOMAIN tokens /\ tokens[address].symbol # ""
  THEN tokens[address].symbol
  ELSE "UNKNOWN"

\* tokens[address]?.decimals || 18
DecimalsOf(tokens, address) ==
  IF address \in DOMAIN tokens /\ tokens[address].decimals # 0
  THEN tokens[address].decimals
  ELSE DEFAULT_DECIMALS

\* A formatting that turns the reserves into Numbers on the way.
formatPoolResponseViaNumber(pool, tokens) ==
  [ id       |-> IF Truthy(Field(pool, "id")) THEN pool.id
                 ELSE pool.token0 \o <<"-">> \o pool.token1,
    factory  |-> IF Truthy(Field(pool, "factory")) THEN pool.factory ELSE Null,
    token0   |-> [ address  |-> pool.token0,
                   symbol   |-> SymbolOf(tokens, pool.token0),
                   decimals |-> DecimalsOf(tokens, pool.token0) ],
    token1   |-> [ address  |-> pool.token1,
                   symbol   |-> SymbolOf(tokens, pool.token1),
                   decimals |-> DecimalsOf(tokens, pool.token1) ],
    reserve0 |-> toString(ToNumber(pool.reserve0)),
    reserve1 |-> toString(ToNumber(pool.reserve1)),
    fee      |-> toString(ToNumber(pool.fee)),
    protocol |-> pool.dexName,
    network  |-> pool.chain ]

\* A formatting without the synthesized id: the id as the pool has it.
formatPoolResponseNoFallback(pool, tokens) ==
  [ id       |-> Field(pool, "id"),
    factory  |-> IF Truthy(Field(pool, "factory")) THEN pool.factory ELSE Null,
    token0   |-> [ address  |-> pool.token0,
                   symbol   |-> SymbolOf(tokens, pool.token0),
                   decimals |-> DecimalsOf(tokens, pool.token0) ],
    token1   |-> [ address  |-> pool.token1,
                   symbol   |-> SymbolOf(tokens, pool.token1),
                   decimals |-> DecimalsOf(tokens, pool.token1) ],
    reserve0 |-> toString(pool.reserve0),
    reserve1 |-> toString(pool.reserve1),
    fee      |-> toString(pool.fee),
    protocol |-> pool.dexName,
    network  |-> pool.chain ]

\* Format pool data for API response.
formatPoolResponse(pool, tokens) ==
  [ id       |-> IF Truthy(Field(pool, "id")) THEN pool.id
                 ELSE pool.token0 \o <<"-">> \o pool.token1,
    factory  |-> IF Truthy(Field(pool, "factory")) THEN pool.factory ELSE Null,
    token0   |-> [ address  |-> pool.token0,
                   symbol   |-> SymbolOf(tokens, pool.token0),
                   decimals |-> DecimalsOf(tokens, pool.token0) ],
    token1   |-> [ address  |-> pool.token1,
                   symbol   |-> SymbolOf(tokens, pool.token1),
                   decimals |-> DecimalsOf(tokens, pool.token1) ],
    reserve0 |-> toString(pool.reserve0),
    reserve1 |-> toString(pool.reserve1),
    fee      |-> toString(pool.fee),
    protocol |-> pool.dexName,
    network  |-> pool.chain ]

\* -------------------------------------------------------------- the inputs

\* Token addresses.
AddrA == <<"0", "x", "a">>

AddrB == <<"0", "x", "b">>

AddrC == <<"0", "x", "c">>

\* Token lists a DexData snapshot may carry: the three tokens of the API
\* test, and a list that resolves fewer addresses, holds a token of 0
\* decimals and lists one address twice.
TokenLists ==
  { << [address |-> AddrA, symbol |-> "TOKEN0", decimals |-> 18],
       [address |-> AddrB, symbol |-> "TOKEN1", decimals |-> 18],
       [address |-> AddrC, symbol |-> "TOKEN2", decimals |-> 6] >>,
    << [address |-> AddrB, symbol |-> "OLD1", decimals |-> 8],
       [address |-> AddrC, symbol |-> "TOKEN2", decimals |-> 0],
       [address |-> AddrB, symbol |-> "TOKEN1", decimals |-> 18] >> }

\* The pools a small snapshot is made of: the four pools of the API test
\* (one factory in upper case, one reserve of 2^53 + 1), and a pool as the
\* repository's fetcher builds it, with neither id nor factory.
PoolUniverse ==
  { [ id |-> <<"0", "x", "p", "1">>, factory |-> <<"0", "x", "f", "1">>,
      dexName |-> "Uniswap V3", chain |-> "Ethereum",
      token0 |-> AddrA, token1 |-> AddrB,
      reserve0 |-> BigInt(1000), reserve1 |-> BigInt(2000), fee |-> BigInt(3000) ],
    [ id |-> <<"0", "x", "p", "2">>, factory |-> <<"0", "x", "F", "2">>,
      dexName |-> "Uniswap V3", chain |-> "Ethereum",
      token0 |-> AddrB, token1 |-> AddrC,
      reserve0 |-> <<256, 0, 0, 1>>, reserve1 |-> BigInt(10),
      fee |-> BigInt(500) ],
    [ id |-> <<"0", "x", "p", "3">>, factory |-> Null,
      dexName |-> "SushiSwap", chain |-> "Ethereum",
      token0 |-> AddrA, token1 |-> AddrC,
      reserve0 |-> BigInt(3000), reserve1 |-> BigInt(6), fee |-> BigInt(3000) ],
    [ id |-> <<"0", "x", "p", "4">>, factory |-> Null,
      dexName |-> "QuickSwap", chain |-> "Polygon",
      token0 |-> AddrA, token1 |-> AddrB,
      reserve0 |-> BigInt(7000), reserve1 |-> BigInt(8000), fee |-> BigInt(3000) ],
    [ dexName |-> "Uniswap V3", chain |-> "Polygon",
      token0 |-> <<"0", "x", "A">>, token1 |-> AddrC,
      reserve0 |-> BigInt(0), reserve1 |-> BigInt(42), fee |-> BigInt(100) ] }

\* The sequences over S of length at most n that list no element twice.
SeqUpTo(S, n) ==
  { s \in UNION { [1..k -> S] : k \in 0..n } :
      \A i, j \in 1..Len(s) : i # j => s[i] # s[j] }

\* A snapshot with more pools than the largest page, each with its own id.
BigDexData ==
  [ tokens |-> << [address |-> AddrA, symbol |-> "TOKEN0", decimals |-> 18] >>,
    pools  |-> [ i \in 1..BigTotal |->
                 [ id |-> <<"0", "x", "p">> \o toString(BigInt(i)),
                   factory |-> Null,
                   dexName |-> "Uniswap V3", chain |-> "Ethereum",
                   token0 |-> AddrA, token1 |-> AddrB,
                   reserve0 |-> BigInt(i), reserve1 |-> BigInt(i),
                   fee |-> BigInt(3000) ] ] ]

\* The DexData snapshots fetchAllDexData may resolve to.
DexDataUniverse ==
  { [tokens |-> t, pools |-> p] :
      t \in TokenLists, p \in SeqUpTo(PoolUniverse, MaxPools) }
  \cup { BigDexData }

\* An Error object with a message.
ErrorOf(text) == [type |-> "Error", message |-> <<text>>]

\* The values fetchAllDexData (or a stand-in for it) may reject with: the
\* fetcher's two configuration errors, the error of the API test, a string
\* (no message property) and undefined (no properties at all).
RejectionValues ==
  { ErrorOf("ETHEREUM_RPC_URL is required"),
    ErrorOf("POLYGON_RPC_URL is required"),
    ErrorOf("Network error"),
    [type |-> "string"],
    [type |-> "undefined"] }

\* A query: every parameter of the endpoint, Undefined or NoKey when absent.
Query(page, limit, network, protocol, factory, pool, input, output) ==
  [ page |-> page, limit |-> limit, network |-> network,
    protocol |-> protocol, factory |-> factory, pool |-> pool,
    input_token |-> input, output_token |-> output ]

PageInputs ==
  { Undefined, <<>>, <<"0">>, <<"1">>, <<"2">>, <<"4">>, <<"-", "1">>,
    <<"a", "b", "c">>, <<"2", "x">> }

LimitInputs ==
  { Undefined, <<>>, <<"0">>, <<"1">>, <<"2">>, <<"1", "0", "0", "0">>,
    <<"1", "0", "0", "1">>, <<"2", "0", "0", "0">>, <<"-", "5">>, <<"x">> }

NetworkInputs ==
  { NoKey, "", "mainnet", "polygon", "base", "bogus", "Mainnet",
    "constructor", "__proto__" }

ProtocolInputs ==
  { NoKey, "", "uniswap_v2", "uniswap_v3", "invalid", "Uniswap V3", "toString" }

FactoryInputs == { Undefined, <<"0", "x", "f", "2">>, ArrayValue }

PoolInputs ==
  { Undefined, <<"0", "x", "P", "1", ",", " ", "0", "x", "p", "4">> }

InputTokenInputs == { Undefined, AddrA }

OutputTokenInputs == { Undefined, <<"0", "x", "B", ",", "0", "x", "c">> }

\* Lists for the factory parameter: two elements with blanks and an upper
\* case letter, an address no pool has, a list with an empty element, a blank.
FactoryListInputs ==
  { <<" ", "0", "x", "F", "1", " ", ",", " ", "0", "x", "f", "2">>,
    <<"0", "x", "f", "9">>,
    <<"0", "x", "f", "1", ",">>,
    <<" ">> }

\* Lists for the pool parameter: three elements of which one matches no
\* pool, and an address no pool has.
PoolListInputs ==
  { <<"0", "x", "p", "3", ",", "0", "x", "P", "2", ",", "0", "x", "p", "9">>,
    <<"0", "x", "p", "9">> }

\* Lists for the token parameters: one address, an address in upper case,
\* two addresses with blanks, and an address no pool has.
TokenListInputs ==
  { AddrA, AddrB, <<"0", "X", "C">>,
    <<"0", "x", "b", " ", ",", " ", "0", "x", "c">>,
    <<"0", "x", "d">> }

\* Requests with one list parameter each, and requests with both token
\* parameters.
ListQueries ==
  { Query(Undefined, Undefined, NoKey, NoKey, f, Undefined, Undefined, Undefined) :
      f \in FactoryListInputs }
  \cup
  { Query(Undefined, Undefined, NoKey, NoKey, Undefined, o, Undefined, Undefined) :
      o \in PoolListInputs }
  \cup
  { Query(Undefined, Undefined, NoKey, NoKey, Undefined, Undefined, i, u) :
      i \in TokenListInputs \cup {Undefined},
      u \in TokenListInputs \cup {Undefined} }

\* The requests: every page with every limit; every network with every
\* protocol; every combination of the six filters; the list parameters.
Queries ==
  ListQueries \cup
  { Query(p, l, n, NoKey, Undefined, Undefined, Undefined, Undefined) :
      p \in PageInputs, l \in LimitInputs, n \in {NoKey, "mainnet"} }
  \cup
  { Query(p, l, n, r, Undefined, Undefined, Undefined, Undefined) :
      p \in {Undefined, <<"0">>}, l \in {Undefined, <<"x">>},
      n \in NetworkInputs, r \in ProtocolInputs }
  \cup
  { Query(Undefined, Undefined, n, r, f, o, i, u) :
      n \in {NoKey, "mainnet", "polygon"}, r \in {NoKey, "uniswap_v3"},
      f \in FactoryInputs, o \in PoolInputs, i \in InputTokenInputs,
      u \in OutputTokenInputs }

\* -------------------------------------------------------------- the handler

VARIABLES
  pc,            \* where the handler of the current request is: "idle" (no
                 \* request), "awaiting" (suspended at the await of
                 \* fetchAllDexData), "escaped" (it threw out of its catch
                 \* block), "done" (it returned), "unanswered" (its rejection
                 \* was dropped)
  query,         \* req.query
  page,          \* const page
  limit,         \* const limit
  fetchCalls,    \* the calls of fetchAllDexData made for the current request
  fetchResult,   \* how that call settled
  filteredPools, \* const filteredPools
  response       \* the response sent: its status and JSON body

vars ==
  << pc, query, page, limit, fetchCalls, fetchResult, filteredPools, response >>

\* The data fetcher (dex-data-fetcher.js) and the token registry
\* (src/src/token-registry.js) are modules of their own; the handler reads
\* and writes nothing of theirs.
VARIABLES
  fetcherPc,      \* where a call of fetchAllDexData is: "idle" (no call),
                  \* "fetching" (awaiting Promise.all), "resolved", "rejected"
  config,         \* the argument of the call
  env,            \* process.env as the call finds it
  finalConfig,    \* the configuration the call settled on
  upstream,       \* for each source, what its request and its fetch function
                  \* came to
  settled,        \* the sources in the order in which their fetches settled
  fetcherResult,  \* what the call resolved or rejected with
  exportResult,   \* what the export of the resolved DexData came to
  registryCall,   \* the last call of an exported function of the registry
  registryReturn, \* what that call returned
  client          \* a client that fetches all pools page by page: its
                  \* filters and limit, its page counter, its allPools and
                  \* hasMore, and the dataset the server answers it from

fetcherVars ==
  << fetcherPc, config, env, finalConfig, upstream, settled, fetcherResult,
     exportResult >>

registryVars == << registryCall, registryReturn >>

allVars == << vars, fetcherVars, registryVars, client >>

\* The three sources, in the order fetchAllDexData lists them.
Sources == << "Uniswap V3", "SushiSwap", "QuickSwap" >>

NoConfig == [type |-> "undefined"]

NoEnv == [ETHEREUM_RPC_URL |-> Undefined, POLYGON_RPC_URL |-> Undefined]

NotStarted == [state |-> "none"]

NoCall == [fn |-> "none"]

\* No call of fetchAllDexData is under way.
FetcherIdle ==
  /\ fetcherPc = "idle"
  /\ config = NoConfig
  /\ env = NoEnv
  /\ finalConfig = NoConfig
  /\ upstream = [i \in 1..Len(Sources) |-> NotStarted]
  /\ settled = <<>>
  /\ fetcherResult = NotStarted
  /\ exportResult = NotStarted

\* No function of the registry has been called.
RegistryIdle ==
  /\ registryCall = NoCall
  /\ registryReturn = NoCall

NoQuery ==
  Query(Undefined, Undefined, NoKey, NoKey, Undefined, Undefined, Undefined,
        Undefined)

NoResponse == [status |-> 0]

NotFetched == [state |-> "none"]

\* keys.join(', '), as the pieces of the resulting string.
RECURSIVE join(_)
join(keys) ==
  IF Len(keys) = 0 THEN <<>>
  ELSE IF Len(keys) = 1 THEN <<keys[1]>>
  ELSE <<keys[1], ", ">> \o join(Tail(keys))

\* const pageParam = req.query.page ? parseInt(req.query.page) : 1
PageParam(q) == IF Truthy(q.page) THEN parseInt(q.page) ELSE Num(DEFAULT_PAGE)

\* const limitParam = req.query.limit ? parseInt(req.query.limit) : 10
LimitParam(q) ==
  IF Truthy(q.limit) THEN parseInt(q.limit) ELSE Num(DEFAULT_LIMIT)

\* const page = pageParam || 1
EffectivePage(pageParam) == OrDefault(pageParam, DEFAULT_PAGE)

\* An effective limit without the clamp.
EffectiveLimitUnclamped(limitParam) == OrDefault(limitParam, DEFAULT_LIMIT)

\* const limit = Math.min(limitParam || 10, 1000)
EffectiveLimit(limitParam) ==
  Min(OrDefault(limitParam, DEFAULT_LIMIT), MAX_LIMIT)

\* A validation that lets page 0 and limit 0 through.
ValidationFailureBelowZero(q) ==
  IF LessThan(PageParam(q), Num(0)) \/ isNaN(PageParam(q))
  THEN <<"Invalid page parameter. Must be >= 1">>
  ELSE IF LessThan(LimitParam(q), Num(0)) \/ isNaN(LimitParam(q))
  THEN <<"Invalid limit parameter. Must be between 1 and 1000">>
  ELSE IF /\ TruthyKey(q.network)
          /\ ~TruthyKey(ObjectLookup(NETWORK_MAPPING, q.network))
  THEN <<"Invalid network parameter. Accepted values: ">> \o join(NETWORK_KEYS)
  ELSE IF /\ TruthyKey(q.protocol)
          /\ ~TruthyKey(ObjectLookup(PROTOCOL_MAPPING, q.protocol))
  THEN <<"Invalid protocol parameter. Accepted values: ">> \o join(PROTOCOL_KEYS)
  ELSE <<>>

\* The four validations in the code's order: the error text of the first
\* that fails (as the pieces of the string), or <<>> when all pass.
ValidationFailure(q) ==
  IF LessThan(PageParam(q), Num(1)) \/ isNaN(PageParam(q))
  THEN <<"Invalid page parameter. Must be >= 1">>
  ELSE IF LessThan(LimitParam(q), Num(1)) \/ isNaN(LimitParam(q))
  THEN <<"Invalid limit parameter. Must be between 1 and 1000">>
  ELSE IF /\ TruthyKey(q.network)
          /\ ~TruthyKey(ObjectLookup(NETWORK_MAPPING, q.network))
  THEN <<"Invalid network parameter. Accepted values: ">> \o join(NETWORK_KEYS)
  ELSE IF /\ TruthyKey(q.protocol)
          /\ ~TruthyKey(ObjectLookup(PROTOCOL_MAPPING, q.protocol))
  THEN <<"Invalid protocol parameter. Accepted values: ">> \o join(PROTOCOL_KEYS)
  ELSE <<>>

\* A handler that fetches before it validates.
ReachesFetchAlways(q) == TRUE

\* Whether the handler gets as far as calling fetchAllDexData: each failed
\* validation returns before it.
ReachesFetch(q) == ValidationFailure(q) = <<>>

\* hasMore with <= for <.
HasMoreInclusive(p, l, total) == (p * l) <= total

\* hasMore: (page * limit) < filteredPools.length
HasMore(p, l, total) == (p * l) < total

\* pagination.total: filteredPools.length
Total(filtered, paginated) == Len(filtered)

\* The body of the 200 response.
SuccessBody(q, p, l, dexData) ==
  LET tokenMap       == BuildTokenMap(dexData.tokens)
      filtered       == filterPools(dexData.pools, q)
      paginatedPools == paginate(filtered, p, l)
      formattedPools == [ i \in 1..Len(paginatedPools) |->
                            formatPoolResponse(paginatedPools[i], tokenMap) ]
  IN [ data       |-> formattedPools,
       pagination |-> [ page    |-> p,
                        limit   |-> l,
                        total   |-> Total(filtered, paginatedPools),
                        hasMore |-> HasMore(p, l, Len(filtered)) ] ]

\* Reading error.message throws when the value caught is undefined or null.
CatchThrows(error) == error.type \in {"undefined", "null"}

\* A catch block that answers with the generic text only.
CatchResponseGeneric(error) ==
  [status |-> 500, body |-> [error |-> "Internal server error"]]

\* The catch block: 500 with the message of the value caught; a value without
\* a message property leaves the field out of the JSON body.
CatchResponse(error) ==
  [ status |-> 500,
    body   |-> IF "message" \in DOMAIN error
               THEN [error |-> "Internal server error", message |-> error.message]
               ELSE [error |-> "Internal server error"] ]

\* The TypeError of reading a property of undefined.
MessageTypeError ==
  ErrorOf("Cannot read properties of undefined (reading 'message')")

Init ==
  /\ pc = "idle"
  /\ query = NoQuery
  /\ page = 0
  /\ limit = 0
  /\ fetchCalls = 0
  /\ fetchResult = NotFetched
  /\ filteredPools = <<>>
  /\ response = NoResponse
  /\ FetcherIdle
  /\ RegistryIdle
  /\ client = [state |-> "idle"]

\* A request arrives and the handler runs to its first return or to the
\* await: it parses page and limit, validates, and calls fetchAllDexData.
HandlerEntry(q) ==
  /\ pc = "idle"
  /\ query' = q
  /\ page' = EffectivePage(PageParam(q))
  /\ limit' = EffectiveLimit(LimitParam(q))
  /\ fetchCalls' = IF ReachesFetch(q) THEN fetchCalls + 1 ELSE fetchCalls
  /\ IF ValidationFailure(q) # <<>>
     THEN /\ response' = [status |-> 400, body |-> [error |-> ValidationFailure(q)]]
          /\ pc' = "done"
     ELSE /\ response' = response
          /\ pc' = "awaiting"
  /\ UNCHANGED << fetchResult, filteredPools >>

\* The same with the fetcher out of the picture: what fetchAllDexData
\* settles with is chosen when it settles.
Request(q) ==
  /\ HandlerEntry(q)
  /\ UNCHANGED << fetcherVars, registryVars, client >>

\* fetchAllDexData resolves and the handler runs to its end: token map,
\* filter, pagination, formatting, the 200 response; a TypeError of
\* filterPools is caught and answered 500. fetchResult keeps the value the
\* promise resolved with (data) and the pools array as the handler leaves it
\* (pools).
FetchResolve(dexData) ==
  /\ pc = "awaiting"
  /\ fetchResult' =
       [ state |-> "resolved", data |-> dexData,
         pools |-> IF filterPoolsThrows(query) THEN dexData.pools
                   ELSE filterPoolsInput(dexData.pools, query) ]
  /\ IF filterPoolsThrows(query)
     THEN /\ response' = CatchResponse(filterPoolsError(query))
          /\ UNCHANGED filteredPools
     ELSE /\ filteredPools' = filterPools(dexData.pools, query)
          /\ response' = [ status |-> 200,
                           body   |-> SuccessBody(query, page, limit, dexData) ]
  /\ pc' = "done"
  /\ UNCHANGED << query, page, limit, fetchCalls >>
  /\ UNCHANGED << fetcherVars, registryVars, client >>

\* fetchAllDexData rejects and the catch block runs; it throws itself when
\* the value caught has no properties.
FetchReject(error) ==
  /\ pc = "awaiting"
  /\ fetchResult' = [state |-> "rejected", error |-> error]
  /\ IF CatchThrows(error)
     THEN /\ pc' = "escaped"
          /\ UNCHANGED response
     ELSE /\ pc' = "done"
          /\ response' = CatchResponse(error)
  /\ UNCHANGED << query, page, limit, fetchCalls, filteredPools >>
  /\ UNCHANGED << fetcherVars, registryVars, client >>

\* A framework that forwards the rejection of an async handler (Express 5)
\* passes it to the error handling middleware, which answers 500.
ErrorMiddleware ==
  /\ pc = "escaped"
  /\ response' = CatchResponse(MessageTypeError)
  /\ pc' = "done"
  /\ UNCHANGED << query, page, limit, fetchCalls, fetchResult, filteredPools >>
  /\ UNCHANGED << fetcherVars, registryVars, client >>

\* A framework that ignores the promise of the handler (Express 4) drops the
\* rejection: the request never gets a response.
UnhandledRejection ==
  /\ pc = "escaped"
  /\ pc' = "unanswered"
  /\ UNCHANGED << query, page, limit, fetchCalls, fetchResult, filteredPools,
                  response >>
  /\ UNCHANGED << fetcherVars, registryVars, client >>

\* The next request starts from nothing: the handler keeps no state.
NextRequest ==
  /\ pc \in {"done", "unanswered"}
  /\ pc' = "idle"
  /\ query' = NoQuery
  /\ page' = 0
  /\ limit' = 0
  /\ fetchCalls' = 0
  /\ fetchResult' = NotFetched
  /\ filteredPools' = <<>>
  /\ response' = NoResponse
  /\ UNCHANGED << fetcherVars, registryVars, client >>

Next ==
  \/ \E q \in Queries : Request(q)
  \/ \E dexData \in DexDataUniverse : FetchResolve(dexData)
  \/ \E error \in RejectionValues : FetchReject(error)
  \/ ErrorMiddleware
  \/ UnhandledRejection
  \/ NextRequest

Spec == Init /\ [][Next]_vars

\* ------------------------------------------------ requests in flight at once

\* The requests that may be in flight at once.
MaxInFlight == 2

\* The calls of fetchAllDexData made in a run.
MaxTicket == 3

\* The handler invocations that may be live at once; in this specification
\* every variable holds one value for each of them: each invocation of the
\* async handler has its own req, page, limit, tokens, pools and res.
Slots == 1..MaxInFlight

\* The requests of the concurrent runs: no parameter, a network with one
\* pool a page, the second page, a token filter, and an invalid page.
ConcurrentQueries ==
  { NoQuery,
    Query(Undefined, <<"1">>, "polygon", NoKey, Undefined, Undefined,
          Undefined, Undefined),
    Query(<<"2">>, <<"1">>, NoKey, NoKey, Undefined, Undefined, Undefined,
          Undefined),
    Query(Undefined, Undefined, NoKey, NoKey, Undefined, Undefined, AddrB,
          Undefined),
    Query(<<"0">>, Undefined, NoKey, NoKey, Undefined, Undefined, Undefined,
          Undefined) }

\* The snapshots of the concurrent runs: the two Polygon pools, in either
\* order, with either token list.
ConcurrentDexData ==
  { d \in DexDataUniverse :
      /\ Len(d.pools) = 2
      /\ \A i \in 1..Len(d.pools) : d.pools[i].chain = "Polygon" }

\* The rejections of the concurrent runs.
ConcurrentRejections == { ErrorOf("Network error"), [type |-> "undefined"] }

\* The number of the next call of fetchAllDexData, the calls being counted
\* from the start (fetchAllDexData.mock.calls.length + 1).
NextTicket ==
  1 + (CHOOSE m \in 0..MaxTicket + 1 :
         /\ \A r \in Slots : fetchCalls[r] <= m
         /\ m = 0 \/ \E r \in Slots : fetchCalls[r] = m)

\* A handler whose req, page and limit are shared by all invocations: the
\* continuation reads those of the request that arrived last.
ClosureOfLatest(r) ==
  LET live == { s \in Slots : pc[s] # "idle" }
      last == CHOOSE s \in live : \A t \in live : fetchCalls[t] <= fetchCalls[s]
  IN [query |-> query[last], page |-> page[last], limit |-> limit[last]]

\* What the continuation of invocation r reads after its await: the req,
\* page and limit of its own closure.
Closure(r) == [query |-> query[r], page |-> page[r], limit |-> limit[r]]

\* A handler that keeps the snapshot of the last answered request in a
\* module-level cache and answers from it.
AwaitedFromCache(r, dexData) ==
  IF \E s \in Slots \ {r} : fetchResult[s].state = "resolved"
  THEN fetchResult[CHOOSE s \in Slots \ {r} :
                     fetchResult[s].state = "resolved"].data
  ELSE dexData

\* const { tokens, pools } = await fetchAllDexData(): the value that the
\* invocation's own call resolved with.
Awaited(r, dexData) == dexData

InitConcurrent ==
  /\ pc = [r \in Slots |-> "idle"]
  /\ query = [r \in Slots |-> NoQuery]
  /\ page = [r \in Slots |-> 0]
  /\ limit = [r \in Slots |-> 0]
  /\ fetchCalls = [r \in Slots |-> 0]
  /\ fetchResult = [r \in Slots |-> NotFetched]
  /\ filteredPools = [r \in Slots |-> <<>>]
  /\ response = [r \in Slots |-> NoResponse]
  /\ FetcherIdle
  /\ RegistryIdle
  /\ client = [state |-> "idle"]

\* A request arrives while others may be in flight: a new invocation runs to
\* its first return or to its await. fetchCalls[r] is the number of the last
\* call of fetchAllDexData that an invocation in slot r made.
ConcurrentRequest(r, q) ==
  /\ pc[r] = "idle"
  /\ ReachesFetch(q) => NextTicket <= MaxTicket
  /\ query' = [query EXCEPT ![r] = q]
  /\ page' = [page EXCEPT ![r] = EffectivePage(PageParam(q))]
  /\ limit' = [limit EXCEPT ![r] = EffectiveLimit(LimitParam(q))]
  /\ fetchCalls' =
       [fetchCalls EXCEPT ![r] = IF ReachesFetch(q) THEN NextTicket ELSE @]
  /\ IF ValidationFailure(q) # <<>>
     THEN /\ response' =
               [response EXCEPT
                  ![r] = [status |-> 400, body |-> [error |-> ValidationFailure(q)]]]
          /\ pc' = [pc EXCEPT ![r] = "done"]
     ELSE /\ response' = response
          /\ pc' = [pc EXCEPT ![r] = "awaiting"]
  /\ UNCHANGED << fetchResult, filteredPools >>
  /\ UNCHANGED << fetcherVars, registryVars, client >>

\* The call of invocation r resolves and its continuation runs to the end.
ConcurrentFetchResolve(r, dexData) ==
  LET own      == Closure(r)
      snapshot == Awaited(r, dexData)
  IN /\ pc[r] = "awaiting"
     /\ fetchResult' =
          [fetchResult EXCEPT
             ![r] = [ state |-> "resolved", data |-> dexData,
                      pools |-> IF filterPoolsThrows(own.query) THEN dexData.pools
                                ELSE filterPoolsInput(dexData.pools, own.query) ]]
     /\ IF filterPoolsThrows(own.query)
        THEN /\ response' =
                  [response EXCEPT ![r] = CatchResponse(filterPoolsError(own.query))]
             /\ UNCHANGED filteredPools
        ELSE /\ filteredPools' =
                  [filteredPools EXCEPT ![r] = filterPools(snapshot.pools, own.query)]
             /\ response' =
                  [response EXCEPT
                     ![r] = [ status |-> 200,
                              body   |-> SuccessBody(own.query, own.page,
                                                     own.limit, snapshot) ]]
     /\ pc' = [pc EXCEPT ![r] = "done"]
     /\ UNCHANGED << query, page, limit, fetchCalls >>
     /\ UNCHANGED << fetcherVars, registryVars, client >>

\* The call of invocation r rejects and its catch block runs.
ConcurrentFetchReject(r, error) ==
  /\ pc[r] = "awaiting"
  /\ fetchResult' =
       [fetchResult EXCEPT ![r] = [state |-> "rejected", error |-> error]]
  /\ IF CatchThrows(error)
     THEN /\ pc' = [pc EXCEPT ![r] = "escaped"]
          /\ UNCHANGED response
     ELSE /\ pc' = [pc EXCEPT ![r] = "done"]
          /\ response' = [response EXCEPT ![r] = CatchResponse(error)]
  /\ UNCHANGED << query, page, limit, fetchCalls, filteredPools >>
  /\ UNCHANGED << fetcherVars, registryVars, client >>

\* The error handling middleware answers for invocation r.
ConcurrentErrorMiddleware(r) ==
  /\ pc[r] = "escaped"
  /\ response' = [response EXCEPT ![r] = CatchResponse(MessageTypeError)]
  /\ pc' = [pc EXCEPT ![r] = "done"]
  /\ UNCHANGED << query, page, limit, fetchCalls, fetchResult, filteredPools >>
  /\ UNCHANGED << fetcherVars, registryVars, client >>

\* The rejection of invocation r is dropped.
ConcurrentUnhandledRejection(r) ==
  /\ pc[r] = "escaped"
  /\ pc' = [pc EXCEPT ![r] = "unanswered"]
  /\ UNCHANGED << query, page, limit, fetchCalls, fetchResult, filteredPools,
                  response >>
  /\ UNCHANGED << fetcherVars, registryVars, client >>

\* Invocation r is over: nothing of it is kept (the count of the calls of
\* fetchAllDexData is the fetcher's, not the handler's).
ConcurrentNextRequest(r) ==
  /\ pc[r] \in {"done", "unanswered"}
  /\ pc' = [pc EXCEPT ![r] = "idle"]
  /\ query' = [query EXCEPT ![r] = NoQuery]
  /\ page' = [page EXCEPT ![r] = 0]
  /\ limit' = [limit EXCEPT ![r] = 0]
  /\ UNCHANGED fetchCalls
  /\ fetchResult' = [fetchResult EXCEPT ![r] = NotFetched]
  /\ filteredPools' = [filteredPools EXCEPT ![r] = <<>>]
  /\ response' = [response EXCEPT ![r] = NoResponse]
  /\ UNCHANGED << fetcherVars, registryVars, client >>

NextConcurrent ==
  \/ \E r \in Slots : \E q \in ConcurrentQueries : ConcurrentRequest(r, q)
  \/ \E r \in Slots : \E dexData \in ConcurrentDexData :
       ConcurrentFetchResolve(r, dexData)
  \/ \E r \in Slots : \E error \in ConcurrentRejections :
       ConcurrentFetchReject(r, error)
  \/ \E r \in Slots : ConcurrentErrorMiddleware(r)
  \/ \E r \in Slots : ConcurrentUnhandledRejection(r)
  \/ \E r \in Slots : ConcurrentNextRequest(r)

SpecConcurrent == InitConcurrent /\ [][NextConcurrent]_vars

\* ---------------------------------------------------------- the data fetcher

\* String.prototype.split(sep) for a one-character separator.
RECURSIVE splitBy(_, _)
splitBy(s, sep) ==
  IF \E i \in 1..Len(s) : s[i] = sep
  THEN LET i == CHOOSE j \in 1..Len(s) :
                  s[j] = sep /\ \A k \in 1..(j - 1) : s[k] # sep
       IN <<SubSeq(s, 1, i - 1)>> \o splitBy(SubSeq(s, i + 1, Len(s)), sep)
  ELSE <<s>>

\* String.prototype.padEnd(n, c)
padEnd(s, n, c) ==
  IF Len(s) >= n THEN s ELSE s \o [i \in 1..(n - Len(s)) |-> c]

\* String.prototype.substring(0, n)
substring(s, n) == SubSeq(s, 1, Min(n, Len(s)))

\* Ten times a bigint plus a digit: the last digit of the bigint first, the
\* carry handed on to the digits before it.
RECURSIVE MultiplyByTenAdd(_, _)
MultiplyByTenAdd(n, carry) ==
  IF n = <<>> THEN (IF carry = 0 THEN <<>> ELSE <<carry>>)
  ELSE LET cur == n[Len(n)] * 10 + carry
       IN MultiplyByTenAdd(SubSeq(n, 1, Len(n) - 1), cur \div BigIntBase)
            \o <<cur % BigIntBase>>

\* BigInt(string) throws a SyntaxError unless the string (blanks around it
\* aside) is empty or a numeral; of the numerals only the plain decimal ones
\* are told apart here, the upstream values having no sign and no prefix.
BigIntThrows(s) == \E i \in 1..Len(trim(s)) : ~IsDigit(trim(s)[i], 10)

\* BigInt(string) of a string of decimal digits, read digit by digit; the
\* empty string is 0n.
RECURSIVE BigIntFromDigits(_, _)
BigIntFromDigits(ds, acc) ==
  IF ds = <<>> THEN StripLeadingZeros(acc)
  ELSE BigIntFromDigits(Tail(ds),
         LET m == MultiplyByTenAdd(acc, DigitValue(Head(ds)))
         IN IF m = <<>> THEN <<0>> ELSE m)

BigIntOfString(s) == BigIntFromDigits(trim(s), <<0>>)

\* The string parseReserveToBigInt hands to BigInt: the integer part, then
\* the fractional part padded with zeros or cut to `decimals` digits.
CombinedReserve(reserveStr, decimals) ==
  LET parts            == splitBy(reserveStr, ".")
      integerPart      == IF parts[1] # <<>> THEN parts[1] ELSE <<"0">>
      fractionalPart   == IF Len(parts) >= 2 THEN parts[2] ELSE <<>>
      paddedFractional == substring(padEnd(fractionalPart, decimals, "0"), decimals)
  IN integerPart \o paddedFractional

\* parseReserveToBigInt throws when BigInt does.
parseReserveThrows(reserveStr, decimals) ==
  /\ Truthy(reserveStr)
  /\ reserveStr # <<"0">>
  /\ BigIntThrows(CombinedReserve(reserveStr, decimals))

\* Convert reserve string to BigInt.
parseReserveToBigInt(reserveStr, decimals) ==
  IF ~Truthy(reserveStr) \/ reserveStr = <<"0">> THEN BigInt(0)
  ELSE BigIntOfString(CombinedReserve(reserveStr, decimals))

\* The decimals every reserve is scaled by: the second argument of both
\* calls of parseReserveToBigInt.
RESERVE_DECIMALS == 18

\* The fee of a SushiSwap or QuickSwap pool, and of a Uniswap V3 pool
\* without a fee tier.
DEFAULT_FEE == 3000

\* The token a fetch function makes of an upstream token.
TokenOf(t) ==
  [ symbol   |-> t.symbol,
    decimals |-> parseInt(t.decimals).val,
    address  |-> toLowerCase(t.id) ]

\* tokenMap after `if (!tokenMap.has(t.id)) tokenMap.set(t.id, token)`: a
\* Map keeps its entries in insertion order, keyed here by the id as the
\* upstream spells it.
SetIfAbsent(tokenMap, t) ==
  IF \E i \in 1..Len(tokenMap) : tokenMap[i].key = t.id THEN tokenMap
  ELSE Append(tokenMap, [key |-> t.id, value |-> TokenOf(t)])

\* Array.from(tokenMap.values())
MapValues(tokenMap) == [i \in 1..Len(tokenMap) |-> tokenMap[i].value]

\* Reading token0.id or token1.id of a record throws a TypeError when the
\* token is missing.
TokenMissing(rec) == {"token0", "token1"} \ DOMAIN rec # {}

\* The callback of fetchUniswapV3Data throws on this pool.
UniswapRecordThrows(pool) ==
  \/ TokenMissing(pool)
  \/ Truthy(pool.liquidity) /\ BigIntThrows(pool.liquidity)
  \/ Truthy(pool.feeTier) /\ BigIntThrows(pool.feeTier)

\* The pool fetchUniswapV3Data pushes.
UniswapPool(pool) ==
  [ dexName  |-> "Uniswap V3",
    chain    |-> "Ethereum",
    token0   |-> toLowerCase(pool.token0.id),
    token1   |-> toLowerCase(pool.token1.id),
    reserve0 |-> IF Truthy(pool.liquidity) THEN BigIntOfString(pool.liquidity)
                 ELSE BigInt(0),
    reserve1 |-> IF Truthy(pool.liquidity) THEN BigIntOfString(pool.liquidity)
                 ELSE BigInt(0),
    fee      |-> IF Truthy(pool.feeTier) THEN BigIntOfString(pool.feeTier)
                 ELSE BigInt(DEFAULT_FEE) ]

\* The callback of fetchSushiSwapData and fetchQuickSwapData throws on this
\* pair.
PairRecordThrows(pair) ==
  \/ TokenMissing(pair)
  \/ parseReserveThrows(IF Truthy(pair.reserve0) THEN pair.reserve0 ELSE <<"0">>,
                        RESERVE_DECIMALS)
  \/ parseReserveThrows(IF Truthy(pair.reserve1) THEN pair.reserve1 ELSE <<"0">>,
                        RESERVE_DECIMALS)

\* The pool fetchSushiSwapData and fetchQuickSwapData push.
PairPool(pair, dexName, chain) ==
  [ dexName  |-> dexName,
    chain    |-> chain,
    token0   |-> toLowerCase(pair.token0.id),
    token1   |-> toLowerCase(pair.token1.id),
    reserve0 |-> parseReserveToBigInt(
                   IF Truthy(pair.reserve0) THEN pair.reserve0 ELSE <<"0">>,
                   RESERVE_DECIMALS),
    reserve1 |-> parseReserveToBigInt(
                   IF Truthy(pair.reserve1) THEN pair.reserve1 ELSE <<"0">>,
                   RESERVE_DECIMALS),
    fee      |-> BigInt(DEFAULT_FEE) ]

\* What source i makes of one record, and whether doing so throws.
RecordThrows(i, rec) ==
  IF i = 1 THEN UniswapRecordThrows(rec) ELSE PairRecordThrows(rec)

RecordPool(i, rec) ==
  CASE i = 1 -> UniswapPool(rec)
    [] i = 2 -> PairPool(rec, "SushiSwap", "Ethereum")
    [] i = 3 -> PairPool(rec, "QuickSwap", "Polygon")

\* A catch block that returns what was gathered before the throw.
CatchKeepsProcessed(tokenMap, pools) ==
  [tokens |-> MapValues(tokenMap), pools |-> pools]

\* The catch block of a fetch function: the source contributes nothing.
CatchResult(tokenMap, pools) == [tokens |-> <<>>, pools |-> <<>>]

\* The forEach of a fetch function from record k on: tokens and pool of each
\* record are added in turn; a throw ends the loop in the catch block.
RECURSIVE ProcessRecords(_, _, _, _, _)
ProcessRecords(i, records, k, tokenMap, pools) ==
  IF k > Len(records) THEN [tokens |-> MapValues(tokenMap), pools |-> pools]
  ELSE IF RecordThrows(i, records[k]) THEN CatchResult(tokenMap, pools)
  ELSE ProcessRecords(i, records, k + 1,
         SetIfAbsent(SetIfAbsent(tokenMap, records[k].token0), records[k].token1),
         Append(pools, RecordPool(i, records[k])))

\* fetchUniswapV3Data, fetchSushiSwapData, fetchQuickSwapData (source 1, 2,
\* 3) on what the request came to: a rejected request is caught like a throw.
FetchSource(i, outcome) ==
  IF ~outcome.ok THEN CatchResult(<<>>, <<>>)
  ELSE ProcessRecords(i, outcome.records, 1, <<>>, <<>>)

\* A merge that keeps the token seen last.
mergeTokensLastWins(tokenArrays) ==
  LET all == tokenArrays[1] \o tokenArrays[2] \o tokenArrays[3]
  IN SelectSeq(
       [ k \in 1..Len(all) |->
           IF \E j \in 1..(k - 1) : all[j].address = all[k].address
           THEN [address |-> Null]
           ELSE all[CHOOSE j \in 1..Len(all) :
                      /\ all[j].address = all[k].address
                      /\ \A m \in (j + 1)..Len(all) :
                           all[m].address # all[k].address] ],
       LAMBDA t : t.address # Null)

\* Merge tokens from multiple sources, removing duplicates: the first token
\* of an address is kept, at the place where it was first seen.
mergeTokens(tokenArrays) ==
  LET all == tokenArrays[1] \o tokenArrays[2] \o tokenArrays[3]
  IN SelectSeq(
       [ k \in 1..Len(all) |->
           IF \E j \in 1..(k - 1) : all[j].address = all[k].address
           THEN [address |-> Null]
           ELSE all[k] ],
       LAMBDA t : t.address # Null)

\* finalConfig.<url>: the config value unless it is missing or blank, else
\* the environment variable, else ''.
FinalUrl(configValue, envValue) ==
  IF Truthy(configValue) /\ trim(configValue) # <<>> THEN configValue
  ELSE IF Truthy(envValue) THEN envValue ELSE <<>>

\* config?.<key>
ConfigValue(c, key) == IF c = NoConfig THEN Undefined ELSE c[key]

FinalConfig(c, e) ==
  [ ethereumRpcUrl |-> FinalUrl(ConfigValue(c, "ethereumRpcUrl"), e.ETHEREUM_RPC_URL),
    polygonRpcUrl  |-> FinalUrl(ConfigValue(c, "polygonRpcUrl"), e.POLYGON_RPC_URL) ]

\* A validation that checks the Polygon URL first.
ConfigErrorPolygonFirst(final) ==
  IF ~Truthy(final.polygonRpcUrl) \/ trim(final.polygonRpcUrl) = <<>>
  THEN "POLYGON_RPC_URL is required"
  ELSE IF ~Truthy(final.ethereumRpcUrl) \/ trim(final.ethereumRpcUrl) = <<>>
  THEN "ETHEREUM_RPC_URL is required"
  ELSE ""

\* Validate configuration: the message of the Error thrown, or "".
ConfigError(final) ==
  IF ~Truthy(final.ethereumRpcUrl) \/ trim(final.ethereumRpcUrl) = <<>>
  THEN "ETHEREUM_RPC_URL is required"
  ELSE IF ~Truthy(final.polygonRpcUrl) \/ trim(final.polygonRpcUrl) = <<>>
  THEN "POLYGON_RPC_URL is required"
  ELSE ""

\* Merging in the order in which the fetches settled.
fetchAllDexDataInArrivalOrder(results, order) ==
  [ tokens |-> mergeTokens([k \in 1..3 |-> results[order[k]].tokens]),
    pools  |-> results[order[1]].pools \o results[order[2]].pools
                 \o results[order[3]].pools ]

\* An aggregation that gives up everything when a source came back empty.
fetchAllDexDataAllOrNothing(results, order) ==
  IF \E i \in 1..3 : results[i].pools = <<>>
  THEN [tokens |-> <<>>, pools |-> <<>>]
  ELSE [ tokens |-> mergeTokens(<<results[1].tokens, results[2].tokens, results[3].tokens>>),
         pools  |-> results[1].pools \o results[2].pools \o results[3].pools ]

\* What fetchAllDexData resolves with: Promise.all hands the three results
\* over in the order of the calls, whatever the order they settled in.
fetchAllDexData(results, order) ==
  [ tokens |-> mergeTokens(<<results[1].tokens, results[2].tokens, results[3].tokens>>),
    pools  |-> results[1].pools \o results[2].pools \o results[3].pools ]

\* JSON.stringify throws a TypeError on a BigInt, and every pool holds three
\* (reserve0, reserve1, fee); nothing in the repository defines
\* BigInt.prototype.toJSON.
StringifyThrows(data) == data.pools # <<>>

\* fs.writeFileSync('dex_data.json', JSON.stringify(data, null, 2)): the
\* file holds the same tokens and pools, or nothing is written.
exportDexData(data) ==
  IF StringifyThrows(data)
  THEN [state |-> "thrown", type |-> "TypeError"]
  ELSE [state |-> "written", tokens |-> data.tokens, pools |-> data.pools]

\* ------------------------------------------------- inputs of the data fetcher

\* Upstream tokens: one address under two spellings and two symbols, a token
\* of 6 decimals and a token of 0.
UpstreamTokens ==
  [ A      |-> [id |-> <<"0", "x", "A">>, symbol |-> "TOKEN0", decimals |-> <<"1", "8">>],
    ALower |-> [id |-> AddrA, symbol |-> "WRAPPED0", decimals |-> <<"1", "8">>],
    B      |-> [id |-> AddrB, symbol |-> "TOKEN1", decimals |-> <<"6">>],
    C      |-> [id |-> AddrC, symbol |-> "TOKEN2", decimals |-> <<"0">>] ]

\* What the request of a source may come to: a failure (network error, HTTP
\* error, malformed response), or a list of records, some of them faulty.
Failed == [ok |-> FALSE]

Records(rs) == [ok |-> TRUE, records |-> rs]

UniswapResponses ==
  LET good1 == [ token0 |-> UpstreamTokens.A, token1 |-> UpstreamTokens.B,
                 liquidity |-> <<"9","0","0","7","1","9","9","2","5","4","7","4","0","9","9","3">>,
                 feeTier |-> <<"5","0","0">> ]
      good2 == [ token0 |-> UpstreamTokens.ALower, token1 |-> UpstreamTokens.C,
                 liquidity |-> Undefined, feeTier |-> Undefined ]
      bad   == [ token0 |-> UpstreamTokens.B, token1 |-> UpstreamTokens.C,
                 liquidity |-> <<"1", ".", "5">>, feeTier |-> <<"5","0","0">> ]
  IN { Failed, Records(<<>>), Records(<<good1>>), Records(<<good1, good2>>),
       Records(<<good1, bad>>) }

SushiSwapResponses ==
  LET good1 == [ token0 |-> UpstreamTokens.ALower, token1 |-> UpstreamTokens.B,
                 reserve0 |-> <<"1", ".", "5">>, reserve1 |-> <<"2">> ]
      good2 == [ token0 |-> UpstreamTokens.B, token1 |-> UpstreamTokens.C,
                 reserve0 |-> <<"0">>, reserve1 |-> <<".", "2", "5">> ]
      bad   == [ token0 |-> UpstreamTokens.C, token1 |-> UpstreamTokens.B,
                 reserve0 |-> <<"a", "b", "c">>, reserve1 |-> <<"1">> ]
  IN { Failed, Records(<<good1>>), Records(<<good1, good2>>),
       Records(<<good1, bad>>) }

QuickSwapResponses ==
  LET good1 == [ token0 |-> UpstreamTokens.ALower, token1 |-> UpstreamTokens.B,
                 reserve0 |-> <<"1", "0">>, reserve1 |-> Undefined ]
      bad   == [ token0 |-> UpstreamTokens.C,
                 reserve0 |-> <<"1">>, reserve1 |-> <<"1">> ]
  IN { Failed, Records(<<>>), Records(<<good1>>), Records(<<good1, bad>>) }

Responses == << UniswapResponses, SushiSwapResponses, QuickSwapResponses >>

\* The calls of fetchAllDexData, each URL missing, blank or set: the config
\* (none, or any two values) with an environment that sets neither URL, and
\* any environment with no config, with a config of blank values and with a
\* config that sets both.
Calls ==
  LET configValues == {Undefined, <<>>, <<" ">>, <<"c">>}
      envValues    == {Undefined, <<" ">>, <<"e">>}
      configs == { [ethereumRpcUrl |-> a, polygonRpcUrl |-> b] :
                     a, b \in configValues }
      envs    == { [ETHEREUM_RPC_URL |-> a, POLYGON_RPC_URL |-> b] :
                     a, b \in envValues }
  IN ({NoConfig} \cup configs) \X {NoEnv}
     \cup { NoConfig,
            [ethereumRpcUrl |-> <<" ">>, polygonRpcUrl |-> <<>>],
            [ethereumRpcUrl |-> <<"c">>, polygonRpcUrl |-> <<"c">>] } \X envs

\* process.env as the handler's call finds it.
HandlerEnvs ==
  { [ETHEREUM_RPC_URL |-> a, POLYGON_RPC_URL |-> b] :
      a, b \in {Undefined, <<" ">>, <<"e">>} }

\* The requests the composed service is asked.
ServedQueries ==
  { NoQuery,
    [NoQuery EXCEPT !.limit = <<"1">>],
    [NoQuery EXCEPT !.limit = <<"1">>, !.page = <<"2">>],
    [NoQuery EXCEPT !.network = "polygon"],
    [NoQuery EXCEPT !.pool = <<"0", "x", "a", "-", "0", "x", "b">>],
    [NoQuery EXCEPT !.factory = <<"0", "x", "f", "1">>],
    [NoQuery EXCEPT !.limit = <<"0">>] }

\* ------------------------------------------------ the service, with fetcher

\* The synchronous start of fetchAllDexData(c) with e as process.env: the
\* configuration is settled and validated; a failed validation rejects the
\* call before any request is made, a passed one starts the three fetches.
CallFetcher(c, e) ==
  /\ config' = c
  /\ env' = e
  /\ finalConfig' = FinalConfig(c, e)
  /\ IF ConfigError(FinalConfig(c, e)) # ""
     THEN /\ fetcherPc' = "rejected"
          /\ fetcherResult' = ErrorOf(ConfigError(FinalConfig(c, e)))
          /\ upstream' = upstream
     ELSE /\ fetcherPc' = "fetching"
          /\ fetcherResult' = fetcherResult
          /\ upstream' = [i \in 1..Len(Sources) |-> [state |-> "pending"]]
  /\ UNCHANGED << settled, exportResult >>

\* A request arrives: the handler validates it and, if it is valid, calls
\* fetchAllDexData() without an argument and awaits it.
ServedRequest(q, e) ==
  /\ fetcherPc = "idle"
  /\ HandlerEntry(q)
  /\ IF ReachesFetch(q) THEN CallFetcher(NoConfig, e) ELSE UNCHANGED fetcherVars
  /\ UNCHANGED << registryVars, client >>

\* Another caller calls fetchAllDexData(c).
FetcherCall(c, e) ==
  /\ fetcherPc = "idle"
  /\ pc = "idle"
  /\ CallFetcher(c, e)
  /\ UNCHANGED << vars, registryVars, client >>

\* The request of source i comes to `outcome`, and its fetch function
\* settles with what it makes of it.
UpstreamSettle(i, outcome) ==
  /\ fetcherPc = "fetching"
  /\ upstream[i].state = "pending"
  /\ upstream' = [upstream EXCEPT ![i] =
                    [ state   |-> "settled",
                      outcome |-> outcome,
                      data    |-> FetchSource(i, outcome) ]]
  /\ settled' = Append(settled, i)
  /\ UNCHANGED << fetcherPc, config, env, finalConfig, fetcherResult, exportResult >>
  /\ UNCHANGED << vars, registryVars, client >>

\* Promise.all resolves once all three fetches have settled; the call
\* resolves with the merged tokens and the concatenated pools.
FetcherResolve ==
  /\ fetcherPc = "fetching"
  /\ \A i \in 1..Len(Sources) : upstream[i].state = "settled"
  /\ fetcherPc' = "resolved"
  /\ fetcherResult' =
       fetchAllDexData([i \in 1..Len(Sources) |-> upstream[i].data], settled)
  /\ UNCHANGED << config, env, finalConfig, upstream, settled, exportResult >>
  /\ UNCHANGED << vars, registryVars, client >>

\* The handler's await resumes with what the fetcher resolved with.
ServedFetchResolve ==
  /\ fetcherPc = "resolved"
  /\ FetchResolve(fetcherResult)

\* The handler's await throws what the fetcher rejected with.
ServedFetchReject ==
  /\ fetcherPc = "rejected"
  /\ FetchReject(fetcherResult)

\* Another caller writes the DexData it was given to a file.
Export ==
  /\ fetcherPc = "resolved"
  /\ pc = "idle"
  /\ exportResult = NotStarted
  /\ exportResult' = exportDexData(fetcherResult)
  /\ UNCHANGED << fetcherPc, config, env, finalConfig, upstream, settled, fetcherResult >>
  /\ UNCHANGED << vars, registryVars, client >>

\* The call is over and its caller has what it settled with.
FetcherReturn ==
  /\ fetcherPc \in {"resolved", "rejected"}
  /\ pc # "awaiting"
  /\ fetcherPc' = "idle"
  /\ config' = NoConfig
  /\ env' = NoEnv
  /\ finalConfig' = NoConfig
  /\ upstream' = [i \in 1..Len(Sources) |-> NotStarted]
  /\ settled' = <<>>
  /\ fetcherResult' = NotStarted
  /\ exportResult' = NotStarted
  /\ UNCHANGED << vars, registryVars, client >>

NextServed ==
  \/ \E q \in ServedQueries : \E e \in HandlerEnvs : ServedRequest(q, e)
  \/ \E c \in Calls : FetcherCall(c[1], c[2])
  \/ \E i \in 1..Len(Sources) : \E r \in Responses[i] : UpstreamSettle(i, r)
  \/ FetcherResolve
  \/ ServedFetchResolve
  \/ ServedFetchReject
  \/ Export
  \/ FetcherReturn
  \/ NextRequest

SpecServed == Init /\ [][NextServed]_allVars

\* ------------------------------------------------------- the token registry

\* The monitored tokens, each an object with a symbol and an address in
\* checksum case; an object is referred to by its place in the array.
MONITORED_TOKENS ==
  << [ symbol |-> "WMATIC",
       address |->
         <<"0", "x", "0", "d", "5", "0", "0", "B", "1", "d", "8", "E", "8", "e",
           "F", "3", "1", "E", "2", "1", "C", "9", "9", "d", "1", "D", "b", "9",
           "A", "6", "4", "4", "4", "d", "3", "A", "D", "f", "1", "2", "7", "0">> ],
     [ symbol |-> "USDC",
       address |->
         <<"0", "x", "2", "7", "9", "1", "B", "c", "a", "1", "f", "2", "d", "e",
           "4", "6", "6", "1", "E", "D", "8", "8", "A", "3", "0", "C", "9", "9",
           "A", "7", "a", "9", "4", "4", "9", "A", "a", "8", "4", "1", "7", "4">> ],
     [ symbol |-> "USDT",
       address |->
         <<"0", "x", "c", "2", "1", "3", "2", "D", "0", "5", "D", "3", "1", "c",
           "9", "1", "4", "a", "8", "7", "C", "6", "6", "1", "1", "C", "1", "0",
           "7", "4", "8", "A", "E", "b", "0", "4", "B", "5", "8", "e", "8", "F">> ],
     [ symbol |-> "DAI",
       address |->
         <<"0", "x", "8", "f", "3", "C", "f", "7", "a", "d", "2", "3", "C", "d",
           "3", "C", "a", "D", "b", "D", "9", "7", "3", "5", "A", "F", "f", "9",
           "5", "8", "0", "2", "3", "2", "3", "9", "c", "6", "A", "0", "6", "3">> ],
     [ symbol |-> "WETH",
       address |->
         <<"0", "x", "7", "c", "e", "B", "2", "3", "f", "D", "6", "b", "C", "0",
           "a", "d", "D", "5", "9", "E", "6", "2", "a", "c", "2", "5", "5", "7",
           "8", "2", "7", "0", "c", "F", "f", "1", "b", "9", "f", "6", "1", "9">> ],
     [ symbol |-> "WBTC",
       address |->
         <<"0", "x", "1", "B", "F", "D", "6", "7", "0", "3", "7", "B", "4", "2",
           "C", "f", "7", "3", "a", "c", "F", "2", "0", "4", "7", "0", "6", "7",
           "b", "d", "4", "F", "2", "C", "4", "7", "D", "9", "B", "f", "D", "6">> ],
     [ symbol |-> "LINK",
       address |->
         <<"0", "x", "5", "3", "E", "0", "b", "c", "a", "3", "5", "e", "C", "3",
           "5", "6", "B", "D", "5", "d", "d", "D", "F", "e", "b", "b", "D", "1",
           "F", "c", "0", "f", "D", "0", "3", "F", "a", "B", "a", "d", "3", "9">> ],
     [ symbol |-> "AAVE",
       address |->
         <<"0", "x", "D", "6", "D", "F", "9", "3", "2", "A", "4", "5", "C", "0",
           "f", "2", "5", "5", "f", "8", "5", "1", "4", "5", "f", "2", "8", "6",
           "e", "A", "0", "b", "2", "9", "2", "B", "2", "1", "C", "9", "0", "B">> ],
     [ symbol |-> "UNI",
       address |->
         <<"0", "x", "b", "3", "3", "E", "a", "A", "d", "8", "d", "9", "2", "2",
           "B", "1", "0", "8", "3", "4", "4", "6", "D", "C", "2", "3", "f", "6",
           "1", "0", "c", "2", "5", "6", "7", "f", "B", "5", "1", "8", "0", "f">> ],
     [ symbol |-> "QUICK",
       address |->
         <<"0", "x", "8", "3", "1", "7", "5", "3", "D", "D", "7", "0", "8", "7",
           "C", "a", "C", "6", "1", "a", "B", "5", "6", "4", "4", "b", "3", "0",
           "8", "6", "4", "2", "c", "c", "1", "c", "3", "3", "D", "c", "1", "3">> ],
     [ symbol |-> "SUSHI",
       address |->
         <<"0", "x", "0", "b", "3", "F", "8", "6", "8", "E", "0", "B", "E", "5",
           "5", "9", "7", "D", "5", "D", "B", "7", "f", "E", "B", "5", "9", "E",
           "1", "C", "A", "D", "B", "b", "0", "f", "d", "D", "a", "5", "0", "a">> ],
     [ symbol |-> "CRV",
       address |->
         <<"0", "x", "1", "7", "2", "3", "7", "0", "d", "5", "C", "d", "6", "3",
           "2", "7", "9", "e", "F", "a", "6", "d", "5", "0", "2", "D", "A", "B",
           "2", "9", "1", "7", "1", "9", "3", "3", "a", "6", "1", "0", "A", "F">> ],
     [ symbol |-> "BAL",
       address |->
         <<"0", "x", "9", "a", "7", "1", "0", "1", "2", "B", "1", "3", "C", "A",
           "4", "d", "3", "D", "0", "C", "d", "c", "7", "2", "A", "1", "7", "7",
           "D", "F", "3", "e", "f", "0", "3", "b", "0", "E", "7", "6", "A", "3">> ],
     [ symbol |-> "SAND",
       address |->
         <<"0", "x", "B", "b", "b", "a", "0", "7", "3", "C", "3", "1", "b", "F",
           "0", "3", "b", "8", "A", "C", "f", "7", "c", "2", "8", "E", "F", "0",
           "7", "3", "8", "D", "e", "C", "F", "3", "6", "9", "5", "6", "8", "3">> ],
     [ symbol |-> "MANA",
       address |->
         <<"0", "x", "A", "1", "c", "5", "7", "f", "4", "8", "F", "0", "D", "e",
           "b", "8", "9", "f", "5", "6", "9", "d", "F", "b", "E", "6", "E", "2",
           "B", "7", "f", "4", "6", "D", "3", "3", "6", "0", "6", "f", "D", "4">> ] >>

\* Cached map of token addresses (lowercase) to token info, built once when
\* the module is loaded: the forEach from token k on. map.set replaces the
\* value of a key the Map has and appends an entry for one it has not; a Map
\* keeps its entries in insertion order.
RECURSIVE BuildMonitoredMap(_, _)
BuildMonitoredMap(k, map) ==
  IF k > Len(MONITORED_TOKENS) THEN map
  ELSE LET key == toLowerCase(MONITORED_TOKENS[k].address)
       IN BuildMonitoredMap(k + 1,
            IF \E j \in 1..Len(map) : map[j].key = key
            THEN [j \in 1..Len(map) |->
                    IF map[j].key = key THEN [key |-> key, value |-> k]
                    ELSE map[j]]
            ELSE Append(map, [key |-> key, value |-> k]))

MONITORED_TOKENS_MAP == BuildMonitoredMap(1, <<>>)

\* Get the cached map: the module's one Map instance.
getMonitoredTokensMap ==
  [instance |-> "MONITORED_TOKENS_MAP", entries |-> MONITORED_TOKENS_MAP]

\* A check that compares the address as it is given.
isMonitoredTokenCaseSensitive(address) ==
  \E k \in 1..Len(MONITORED_TOKENS) : MONITORED_TOKENS[k].address = address

\* Check if a token address is in the monitored list.
isMonitoredToken(address) ==
  LET lowerAddress == toLowerCase(address)
  IN \E k \in 1..Len(MONITORED_TOKENS) :
       toLowerCase(MONITORED_TOKENS[k].address) = lowerAddress

\* Get token info by address: the first token of the address, or undefined.
getTokenInfo(address) ==
  LET lowerAddress == toLowerCase(address)
      found == { k \in 1..Len(MONITORED_TOKENS) :
                   toLowerCase(MONITORED_TOKENS[k].address) = lowerAddress }
  IN IF found = {} THEN [defined |-> FALSE]
     ELSE LET first == CHOOSE k \in found : \A j \in found : k <= j
          IN [defined |-> TRUE, object |-> first, token |-> MONITORED_TOKENS[first]]

\* The addresses the registry is asked about: every monitored address as
\* listed, in lower case, in upper case and with upper-case digits after a
\* lower-case 0x, and addresses that are not monitored.
RegistryAddresses ==
  LET upperOf(c) ==
        CASE c = "a" -> "A" [] c = "b" -> "B" [] c = "c" -> "C"
          [] c = "d" -> "D" [] c = "e" -> "E" [] c = "f" -> "F"
          [] c = "x" -> "X" [] OTHER -> c
      upper(s) == [k \in 1..Len(s) |-> upperOf(s[k])]
      listed == { MONITORED_TOKENS[k].address : k \in 1..Len(MONITORED_TOKENS) }
  IN listed
     \cup { toLowerCase(a) : a \in listed }
     \cup { upper(a) : a \in listed }
     \cup { <<"0", "x">> \o upper(SubSeq(a, 3, Len(a))) : a \in listed }
     \cup { <<>>,
            <<"0", "x">>,
            SubSeq(MONITORED_TOKENS[1].address, 3, Len(MONITORED_TOKENS[1].address)),
            SubSeq(MONITORED_TOKENS[1].address, 1, Len(MONITORED_TOKENS[1].address) - 1),
            [MONITORED_TOKENS[2].address EXCEPT ![Len(MONITORED_TOKENS[2].address)] = "5"],
            <<"0", "x">> \o [k \in 1..40 |-> "0"] }

\* A caller calls isMonitoredToken(address).
CallIsMonitoredToken(address) ==
  /\ registryCall' = [fn |-> "isMonitoredToken", address |-> address]
  /\ registryReturn' = [fn |-> "isMonitoredToken", value |-> isMonitoredToken(address)]
  /\ UNCHANGED << vars, fetcherVars, client >>

\* A caller calls getTokenInfo(address).
CallGetTokenInfo(address) ==
  /\ registryCall' = [fn |-> "getTokenInfo", address |-> address]
  /\ registryReturn' = [fn |-> "getTokenInfo", value |-> getTokenInfo(address)]
  /\ UNCHANGED << vars, fetcherVars, client >>

\* A caller calls getMonitoredTokensMap().
CallGetMonitoredTokensMap ==
  /\ registryCall' = [fn |-> "getMonitoredTokensMap"]
  /\ registryReturn' = [fn |-> "getMonitoredTokensMap", value |-> getMonitoredTokensMap]
  /\ UNCHANGED << vars, fetcherVars, client >>

NextRegistry ==
  \/ \E address \in RegistryAddresses : CallIsMonitoredToken(address)
  \/ \E address \in RegistryAddresses : CallGetTokenInfo(address)
  \/ CallGetMonitoredTokensMap

SpecRegistry == Init /\ [][NextRegistry]_allVars

\* --------------------------------------------------- the paginating client

\* The filters and limits a client pages with: limits 1, 2, 3 and the
\* default, a network filter, a token filter, and a limit the API refuses.
ClientQueries ==
  { NoQuery,
    [NoQuery EXCEPT !.limit = <<"1">>],
    [NoQuery EXCEPT !.limit = <<"2">>],
    [NoQuery EXCEPT !.limit = <<"3">>],
    [NoQuery EXCEPT !.limit = <<"1">>, !.network = "mainnet"],
    [NoQuery EXCEPT !.limit = <<"2">>, !.input_token = AddrB],
    [NoQuery EXCEPT !.limit = <<"0">>] }

\* getAllPools() begins, with filters and limit q, against a dataset that
\* stays as it is: let page = 1; let hasMore = true; allPools = [].
ClientStart(q, dexData) ==
  /\ client.state = "idle"
  /\ pc = "idle"
  /\ client' = [ state |-> "looping", waiting |-> FALSE, filters |-> q,
                 dataset |-> dexData, page |-> 1, hasMore |-> TRUE,
                 allPools |-> <<>>, requests |-> 0 ]
  /\ UNCHANGED << vars, fetcherVars, registryVars >>

\* while (hasMore): fetch(...&page=${page}); the handler runs up to its
\* await, or answers 400.
ClientRequest ==
  /\ client.state = "looping"
  /\ ~client.waiting
  /\ client.hasMore
  /\ HandlerEntry([client.filters EXCEPT !.page = toString(BigInt(client.page))])
  /\ client' = [client EXCEPT !.waiting = TRUE, !.requests = @ + 1]
  /\ UNCHANGED << fetcherVars, registryVars >>

\* The server answers the client's request from the dataset.
ServerAnswers ==
  /\ client.state = "looping"
  /\ client.waiting
  /\ FetchResolve(client.dataset)

\* const data = await response.json(); allPools.push(...data.data);
\* hasMore = data.pagination.hasMore; page++. A body without data (a 400)
\* makes the spread throw.
ClientReceive ==
  /\ client.state = "looping"
  /\ client.waiting
  /\ pc = "done"
  /\ IF response.status = 200
     THEN client' = [client EXCEPT
                       !.waiting = FALSE,
                       !.allPools = @ \o response.body.data,
                       !.hasMore = response.body.pagination.hasMore,
                       !.page = @ + 1,
                       !.state = IF response.body.pagination.hasMore
                                 THEN "looping" ELSE "finished"]
     ELSE client' = [client EXCEPT !.waiting = FALSE, !.state = "thrown"]
  /\ UNCHANGED << vars, fetcherVars, registryVars >>

\* The request is over on the server's side once the client has its answer.
ClientRequestOver ==
  /\ client.state # "idle"
  /\ ~client.waiting
  /\ NextRequest

NextClient ==
  \/ \E q \in ClientQueries :
       \E t \in TokenLists, p \in SeqUpTo(PoolUniverse, MaxPools) :
         ClientStart(q, [tokens |-> t, pools |-> p])
  \/ ClientRequest
  \/ ServerAnswers
  \/ ClientReceive
  \/ ClientRequestOver

SpecClient == Init /\ [][NextClient]_allVars

\* -------------------------------------------------------------- properties

\* The elements of a sequence.
Range(seq) == { seq[i] : i \in 1..Len(seq) }

\* The handler answered 200: fetchAllDexData resolved and nothing threw.
Answered200 == response.status = 200

\* The snapshot the current request was answered from.
SnapshotPools == fetchResult.data.pools

\* Section 4.2 of the specification, pool by pool: the pool passes every
\* filter the query supplies (a parameter is supplied when it is present and
\* not empty).
Keeps(pool, q) ==
  /\ TruthyKey(q.network) =>
       pool.chain = ObjectLookup(NETWORK_MAPPING, q.network)
  /\ Truthy(q.factory) =>
       /\ Truthy(Field(pool, "factory"))
       /\ toLowerCase(pool.factory) \in Range(SplitList(q.factory))
  /\ Truthy(q.pool) =>
       /\ Truthy(Field(pool, "id"))
       /\ toLowerCase(pool.id) \in Range(SplitList(q.pool))
  /\ Truthy(q.input_token) =>
       \/ toLowerCase(pool.token0) \in Range(SplitList(q.input_token))
       \/ toLowerCase(pool.token1) \in Range(SplitList(q.input_token))
  /\ Truthy(q.output_token) =>
       \/ toLowerCase(pool.token0) \in Range(SplitList(q.output_token))
       \/ toLowerCase(pool.token1) \in Range(SplitList(q.output_token))
  /\ TruthyKey(q.protocol) =>
       pool.dexName = ObjectLookup(PROTOCOL_MAPPING, q.protocol)

\* C1: in every 200 response, data is the contiguous slice of the filtered
\* pool list that starts at offset (page-1)*L, L the effective limit, in the
\* list's order and formatted pool by pool: the offset is never negative,
\* data.length = min(L, max(0, total - (page-1)*L)), and a page past the end
\* is an empty 200 response.
C1_PageIsContiguousSlice ==
  Answered200 =>
    LET pg       == response.body.pagination
        data     == response.body.data
        offset   == (pg.page - 1) * pg.limit
        tokenMap == BuildTokenMap(fetchResult.data.tokens)
    IN /\ pg.page >= 1
       /\ pg.limit >= 1
       /\ offset >= 0
       /\ Len(data) = Min(pg.limit, Max(0, Len(filteredPools) - offset))
       /\ \A i \in 1..Len(data) :
            data[i] = formatPoolResponse(filteredPools[offset + i], tokenMap)

\* A middle page: page 2 of three filtered pools, one pool a page.
C1_Witness ==
  /\ Answered200
  /\ query.network = "mainnet"
  /\ response.body.pagination.page = 2
  /\ response.body.pagination.limit = 1
  /\ Len(filteredPools) = 3
  /\ Len(response.body.data) = 1

\* C2: in every 200 response, pagination.total is the number of pools of the
\* snapshot that pass all supplied filters, whatever page and limit are, and
\* pagination.hasMore is true exactly when page * limit < total.
C2_TotalAndHasMore ==
  Answered200 =>
    LET pg == response.body.pagination
    IN /\ pg.total = Cardinality({ i \in 1..Len(SnapshotPools) :
                                     Keeps(SnapshotPools[i], query) })
       /\ pg.hasMore = (pg.page * pg.limit < pg.total)

\* A filtered, paginated response with more to come.
C2_Witness ==
  /\ Answered200
  /\ response.body.pagination.hasMore
  /\ response.body.pagination.total > 0
  /\ response.body.pagination.total < Len(SnapshotPools)

\* The request names a network outside the eight keys.
UnknownNetwork(q) == TruthyKey(q.network) /\ q.network \notin Range(NETWORK_KEYS)

\* The request names a protocol outside the three keys.
UnknownProtocol(q) ==
  TruthyKey(q.protocol) /\ q.protocol \notin Range(PROTOCOL_KEYS)

\* C3: a request whose network is not one of the eight keys, or whose
\* protocol is not one of the three, is answered 400 (never 200), whatever
\* the string.
C3_UnknownNetworkOrProtocolRejected ==
  (pc = "done" /\ (UnknownNetwork(query) \/ UnknownProtocol(query)))
    => response.status = 400

\* A whole decimal integer: an optional sign and digits, nothing else.
IsIntegerLiteral(s) ==
  LET u == IF s # <<>> /\ Head(s) \in {"-", "+"} THEN Tail(s) ELSE s
  IN u # <<>> /\ \A i \in 1..Len(u) : IsDigit(u[i], 10)

\* The parameter is present and is not an integer >= 1.
NotAnIntegerFromOne(s) ==
  s # Undefined /\ (~IsIntegerLiteral(s) \/ parseInt(s).val < 1)

\* C4 as first stated: a request whose page (limit) parameter fails to parse
\* as an integer or parses to a value < 1 is answered 400 with a body that
\* holds only error; absent, page is 1 and limit 10.
C4_InvalidPageOrLimitRejected ==
  pc = "done" =>
    /\ (NotAnIntegerFromOne(query.page) \/ NotAnIntegerFromOne(query.limit))
         => (response.status = 400 /\ DOMAIN response.body = {"error"})
    /\ query.page = Undefined => page = 1
    /\ query.limit = Undefined => limit = 10

\* The parameter is not empty and parseInt makes NaN or a number < 1 of it.
RejectedByParseInt(s) ==
  Truthy(s) /\ (isNaN(parseInt(s)) \/ parseInt(s).val < 1)

\* C4, amended: a request whose page (limit) parameter is not empty and of
\* which parseInt makes NaN or a number < 1 is answered 400 at once, with a
\* body that holds only error; an absent or empty page is 1 and an absent or
\* empty limit is 10, and a value that starts with an integer >= 1 counts as
\* that integer (the effective limit at most 1000), not as a parse failure.
C4_NonEmptyInvalidPageOrLimitRejected ==
  pc # "idle" =>
    /\ (RejectedByParseInt(query.page) \/ RejectedByParseInt(query.limit))
         => /\ pc = "done"
            /\ response.status = 400
            /\ DOMAIN response.body = {"error"}
    /\ ~Truthy(query.page) => page = 1
    /\ ~Truthy(query.limit) => limit = 10
    /\ (Truthy(query.page) /\ ~RejectedByParseInt(query.page))
         => page = parseInt(query.page).val
    /\ (Truthy(query.limit) /\ ~RejectedByParseInt(query.limit))
         => limit = Min(parseInt(query.limit).val, 1000)
    /\ (response.status = 400 /\ ~RejectedByParseInt(query.page)
          /\ ~RejectedByParseInt(query.limit))
         => (UnknownNetwork(query) \/ UnknownProtocol(query))
    /\ Answered200 =>
         /\ response.body.pagination.page = page
         /\ response.body.pagination.limit = limit

\* limit=0 with a valid page: rejected for its limit.
C4_Witness ==
  /\ query.limit = <<"0">>
  /\ query.page = <<"2">>
  /\ response.status = 400
  /\ response.body.error = <<"Invalid limit parameter. Must be between 1 and 1000">>

\* C5: a supplied limit above 1000 is not rejected; the effective limit, the
\* reported pagination.limit, the slice offset and length and hasMore all use
\* 1000; a supplied limit in 1..1000 is the effective limit.
C5_LimitClampedTo1000 ==
  (pc # "idle" /\ Truthy(query.limit) /\ ~isNaN(parseInt(query.limit))) =>
    LET n == parseInt(query.limit).val
    IN /\ n > 1000 =>
            /\ limit = 1000
            /\ response.status = 400 =>
                 response.body.error[1] #
                   "Invalid limit parameter. Must be between 1 and 1000"
            /\ (fetchResult.state = "resolved" /\ ~filterPoolsThrows(query))
                 => Answered200
            /\ Answered200 =>
                 LET pg == response.body.pagination
                 IN /\ pg.limit = 1000
                    /\ Len(response.body.data) =
                         Min(1000, Max(0, pg.total - (pg.page - 1) * 1000))
                    /\ \A i \in 1..Len(response.body.data) :
                         response.body.data[i].id =
                           formatPoolResponse(
                             filteredPools[(pg.page - 1) * 1000 + i], << >>).id
                    /\ pg.hasMore = (pg.page * 1000 < pg.total)
       /\ n \in 1..1000 =>
            /\ limit = n
            /\ Answered200 => response.body.pagination.limit = n

\* limit=2000 against more than 1000 pools: 1000 pools and more to come.
C5_Witness ==
  /\ query.limit = <<"2", "0", "0", "0">>
  /\ Answered200
  /\ response.body.pagination.limit = 1000
  /\ Len(response.body.data) = 1000
  /\ response.body.pagination.hasMore

\* The four validations as the handler evaluates them: page and limit are
\* absent, empty or start with an integer >= 1; network and protocol are
\* absent, empty or name a truthy member of their table.
AllValidationsPass(q) ==
  /\ ~RejectedByParseInt(q.page)
  /\ ~RejectedByParseInt(q.limit)
  /\ TruthyKey(q.network) => TruthyKey(ObjectLookup(NETWORK_MAPPING, q.network))
  /\ TruthyKey(q.protocol) =>
       TruthyKey(ObjectLookup(PROTOCOL_MAPPING, q.protocol))

\* C6: a request answered 400 never called fetchAllDexData, and a call is
\* made (at most once) only for a request that passed all four validations.
C6_ValidationBeforeFetch ==
  /\ response.status = 400 => (fetchCalls = 0 /\ fetchResult = NotFetched)
  /\ fetchCalls > 0 => AllValidationsPass(query)
  /\ fetchResult # NotFetched => fetchCalls = 1
  /\ fetchCalls <= 1

\* The last validation fails: no fetch was made.
C6_Witness ==
  /\ pc = "done"
  /\ query.network = "mainnet"
  /\ query.protocol = "invalid"
  /\ response.status = 400
  /\ fetchCalls = 0

\* C7: when fetchAllDexData rejects with an Error (what the repository's
\* fetcher and the API test reject with) for a validated request, the
\* request is answered 500 with exactly error = 'Internal server error' and
\* message = the Error's message: no data, no pagination, not a 400.
C7_FetchErrorAnswered500 ==
  (fetchResult.state = "rejected" /\ fetchResult.error.type = "Error") =>
    /\ AllValidationsPass(query)
    /\ pc = "done"
    /\ response.status = 500
    /\ DOMAIN response.body = {"error", "message"}
    /\ response.body.error = "Internal server error"
    /\ response.body.message = fetchResult.error.message

\* The fetcher's configuration error, answered 500.
C7_Witness ==
  /\ fetchResult.state = "rejected"
  /\ fetchResult.error = ErrorOf("ETHEREUM_RPC_URL is required")
  /\ response.status = 500
  /\ response.body.message = <<"ETHEREUM_RPC_URL is required">>

ChainNameOf(key) ==
  CASE key = "arbitrum-one" -> "Arbitrum"
    [] key = "avalanche" -> "Avalanche"
    [] key = "base" -> "Base"
    [] key = "bsc" -> "BSC"
    [] key = "mainnet" -> "Ethereum"
    [] key = "optimism" -> "Optimism"
    [] key = "polygon" -> "Polygon"
    [] key = "unichain" -> "Unichain"

\* The DEX display name of section 4.1 for each protocol key.
ProtocolNameOf(key) ==
  CASE key = "uniswap_v2" -> "Uniswap V2"
    [] key = "uniswap_v3" -> "Uniswap V3"
    [] key = "uniswap_v4" -> "Uniswap V4"

\* The six filter dimensions.
Dims ==
  {"network", "factory", "pool", "input_token", "output_token", "protocol"}

\* The query supplies the dimension.
Supplied(q, d) ==
  IF d \in {"network", "protocol"} THEN TruthyKey(q[d]) ELSE Truthy(q[d])

\* The query with every filter dimension but d taken out.
Only(q, d) ==
  [ k \in DOMAIN q |->
      IF k \in Dims \ {d}
      THEN (IF k \in {"network", "protocol"} THEN NoKey ELSE Undefined)
      ELSE q[k] ]

\* The filter of one dimension, as filterPools applies it to a list.
Step(d, list, q) ==
  CASE d = "network" -> FilterByNetwork(list, q)
    [] d = "factory" -> FilterByFactory(list, q)
    [] d = "pool" -> FilterByPool(list, q)
    [] d = "input_token" -> FilterByInputToken(list, q)
    [] d = "output_token" -> FilterByOutputToken(list, q)
    [] d = "protocol" -> FilterByProtocol(list, q)

\* The filters applied in the given order of dimensions.
RECURSIVE ApplyInOrder(_, _, _)
ApplyInOrder(order, list, q) ==
  IF order = <<>> THEN list
  ELSE ApplyInOrder(Tail(order), Step(Head(order), list, q), q)

\* The request was answered 200 from one of the small snapshots.
AnsweredFromSmallSnapshot == Answered200 /\ Len(SnapshotPools) <= MaxPools

\* C9: with a valid network key supplied, every filtered pool is of the
\* mapped chain, and the network filter keeps exactly the pools of that chain
\* (it is the whole filtered list when no other filter is supplied); the
\* same for a valid protocol key and the mapped DEX name; a dimension that
\* is not supplied removes no pool.
C9_NetworkAndProtocolFilters ==
  Answered200 =>
    /\ query.network \in Range(NETWORK_KEYS) =>
         /\ \A i \in 1..Len(filteredPools) :
              filteredPools[i].chain = ChainNameOf(query.network)
         /\ filterPools(SnapshotPools, Only(query, "network")) =
              SelectSeq(SnapshotPools,
                        LAMBDA pool : pool.chain = ChainNameOf(query.network))
         /\ (\A d \in Dims \ {"network"} : ~Supplied(query, d)) =>
              filteredPools =
                SelectSeq(SnapshotPools,
                          LAMBDA pool : pool.chain = ChainNameOf(query.network))
    /\ query.protocol \in Range(PROTOCOL_KEYS) =>
         /\ \A i \in 1..Len(filteredPools) :
              filteredPools[i].dexName = ProtocolNameOf(query.protocol)
         /\ filterPools(SnapshotPools, Only(query, "protocol")) =
              SelectSeq(SnapshotPools,
                        LAMBDA pool : pool.dexName = ProtocolNameOf(query.protocol))
         /\ (\A d \in Dims \ {"protocol"} : ~Supplied(query, d)) =>
              filteredPools =
                SelectSeq(SnapshotPools,
                          LAMBDA pool : pool.dexName = ProtocolNameOf(query.protocol))
    /\ \A d \in Dims :
         ~Supplied(query, d) =>
           /\ Step(d, SnapshotPools, query) = SnapshotPools
           /\ Step(d, filteredPools, query) = filteredPools
    /\ (\A d \in Dims : ~Supplied(query, d)) => filteredPools = SnapshotPools

\* network=polygon alone keeps some pools of the snapshot and drops others.
C9_Witness ==
  /\ Answered200
  /\ query.network = "polygon"
  /\ \A d \in Dims \ {"network"} : ~Supplied(query, d)
  /\ Len(filteredPools) = 1
  /\ filteredPools[1].chain = "Polygon"
  /\ Len(SnapshotPools) = 3

\* C10: the filtered list is the snapshot restricted to the pools that every
\* supplied filter, applied alone, keeps; and the order of the filters does
\* not matter: any two of the six filters commute on the snapshot (every
\* list a filter can produce from a small snapshot is itself a small
\* snapshot, so any order can be reached from the code's by swapping
\* neighbours), and the reverse of the code's order gives the same list.
C10_FiltersAreConjunctive ==
  AnsweredFromSmallSnapshot =>
    /\ filteredPools =
         SelectSeq(SnapshotPools, LAMBDA pool :
           \A d \in Dims :
             Supplied(query, d) =>
               pool \in Range(filterPools(SnapshotPools, Only(query, d))))
    /\ \A d1, d2 \in Dims :
         Step(d1, Step(d2, SnapshotPools, query), query) =
           Step(d2, Step(d1, SnapshotPools, query), query)
    /\ ApplyInOrder(<<"protocol", "output_token", "input_token", "pool",
                      "factory", "network">>, SnapshotPools, query)
         = filteredPools
    /\ ApplyInOrder(<<"pool", "protocol", "network", "output_token",
                      "factory", "input_token">>, SnapshotPools, query)
         = filteredPools

\* All six filters supplied: each alone keeps more than all of them together.
C10_Witness ==
  /\ Answered200
  /\ \A d \in Dims : Supplied(query, d)
  /\ \A d \in Dims :
       Len(filterPools(SnapshotPools, Only(query, d))) > Len(filteredPools)
  /\ Len(SnapshotPools) = 3

\* The lower-case letter of each upper-case letter an address may hold.
LowerOf(c) ==
  LET pairs == { <<"A", "a">>, <<"B", "b">>, <<"C", "c">>, <<"D", "d">>,
                 <<"E", "e">>, <<"F", "f">>, <<"P", "p">>, <<"X", "x">> }
  IN IF \E pr \in pairs : pr[1] = c
     THEN (CHOOSE pr \in pairs : pr[1] = c)[2]
     ELSE c

\* A string in lower case without the blanks around it.
Normalised(x) ==
  LET kept == { i \in 1..Len(x) : x[i] # " " }
  IN IF kept = {} THEN <<>>
     ELSE LET first == CHOOSE i \in kept : \A j \in kept : i <= j
              last  == CHOOSE i \in kept : \A j \in kept : i >= j
          IN [ i \in 1..(last - first + 1) |-> LowerOf(x[first + i - 1]) ]

\* The requested set of a list parameter: the normalised form of every
\* stretch of the value that lies between two commas (or an end of the value)
\* and holds no comma.
RequestedSet(value) ==
  { Normalised(SubSeq(value, a, b)) :
      <<a, b>> \in { ab \in (1..(Len(value) + 1)) \X (0..Len(value)) :
                       /\ ab[1] <= ab[2] + 1
                       /\ \A i \in ab[1]..ab[2] : value[i] # ","
                       /\ ab[1] = 1 \/ value[ab[1] - 1] = ","
                       /\ ab[2] = Len(value) \/ value[ab[2] + 1] = "," } }

\* The lower-case form of a string.
Lower(x) == [ i \in 1..Len(x) |-> LowerOf(x[i]) ]

\* The pool has a non-null value of the property, in the requested set.
InRequestedSet(pool, k, value) ==
  /\ k \in DOMAIN pool
  /\ pool[k] # Null
  /\ Lower(pool[k]) \in RequestedSet(value)

\* C11: with factory (pool) supplied, the value is split on commas and each
\* element trimmed and lower-cased; a pool is kept iff its factory (id) is
\* not null and its lower-case form is one of the elements, so a pool without
\* a factory (id) is never kept.
C11_FactoryAndPoolLists ==
  Answered200 =>
    /\ Truthy(query.factory) =>
         /\ Range(SplitList(query.factory)) = RequestedSet(query.factory)
         /\ filterPools(SnapshotPools, Only(query, "factory")) =
              SelectSeq(SnapshotPools,
                        LAMBDA pool : InRequestedSet(pool, "factory", query.factory))
         /\ \A i \in 1..Len(filteredPools) :
              InRequestedSet(filteredPools[i], "factory", query.factory)
    /\ Truthy(query.pool) =>
         /\ Range(SplitList(query.pool)) = RequestedSet(query.pool)
         /\ filterPools(SnapshotPools, Only(query, "pool")) =
              SelectSeq(SnapshotPools,
                        LAMBDA pool : InRequestedSet(pool, "id", query.pool))
         /\ \A i \in 1..Len(filteredPools) :
              InRequestedSet(filteredPools[i], "id", query.pool)

\* factory=" 0xF1 , 0xf2" keeps the pool of 0xf1 and the pool stored as 0xF2,
\* and drops a pool without a factory.
C11_Witness ==
  /\ Answered200
  /\ query.factory = <<" ", "0", "x", "F", "1", " ", ",", " ", "0", "x", "f", "2">>
  /\ Len(SnapshotPools) = 3
  /\ Len(filteredPools) = 2
  /\ filteredPools[1].factory = <<"0", "x", "F", "2">>
  /\ filteredPools[2].factory = <<"0", "x", "f", "1">>
  /\ \E i \in 1..3 : ~Truthy(Field(SnapshotPools[i], "factory"))

\* One of the pool's two token addresses, in lower case, is in the requested
\* set of the value: the side does not matter.
HasTokenIn(pool, value) ==
  LET requested == RequestedSet(value)
  IN Lower(pool.token0) \in requested \/ Lower(pool.token1) \in requested

\* The query with the values of input_token and output_token swapped.
Swapped(q) ==
  [q EXCEPT !.input_token = q.output_token, !.output_token = q.input_token]

\* C12: input_token and output_token each keep a pool iff its token0 or its
\* token1, in lower case, is in the requested set, whichever side the token
\* is on; with both supplied a pool is kept only if it passes both tests, and
\* swapping the two values gives the same filtered list.
C12_TokenFiltersNonDirectional ==
  Answered200 =>
    /\ Truthy(query.input_token) =>
         /\ filterPools(SnapshotPools, Only(query, "input_token")) =
              SelectSeq(SnapshotPools,
                        LAMBDA pool : HasTokenIn(pool, query.input_token))
         /\ \A i \in 1..Len(filteredPools) :
              HasTokenIn(filteredPools[i], query.input_token)
    /\ Truthy(query.output_token) =>
         /\ filterPools(SnapshotPools, Only(query, "output_token")) =
              SelectSeq(SnapshotPools,
                        LAMBDA pool : HasTokenIn(pool, query.output_token))
         /\ \A i \in 1..Len(filteredPools) :
              HasTokenIn(filteredPools[i], query.output_token)
    /\ (Truthy(query.input_token) /\ Truthy(query.output_token)) =>
         filterPools(SnapshotPools,
                     [Only(query, "input_token") EXCEPT
                        !.output_token = query.output_token]) =
           SelectSeq(SnapshotPools, LAMBDA pool :
             /\ HasTokenIn(pool, query.input_token)
             /\ HasTokenIn(pool, query.output_token))
    /\ filterPools(SnapshotPools, Swapped(query)) = filteredPools

\* input_token=0xb with output_token=0xa keeps a pool whose token0 is 0xa and
\* whose token1 is 0xb, and drops a pool that lacks one of the two.
C12_Witness ==
  /\ Answered200
  /\ query.input_token = AddrB
  /\ query.output_token = AddrA
  /\ Len(filteredPools) > 0
  /\ Len(filteredPools) < Len(SnapshotPools)
  /\ filteredPools[1].token0 = AddrA
  /\ filteredPools[1].token1 = AddrB

\* sub lists elements of seq in the order seq lists them: a strictly
\* increasing choice of positions of seq gives sub.
IsSubsequence(sub, seq) ==
  /\ Len(sub) <= Len(seq)
  /\ \E f \in [1..Len(sub) -> 1..Len(seq)] :
       /\ \A i, j \in 1..Len(sub) : i < j => f[i] < f[j]
       /\ \A i \in 1..Len(sub) : sub[i] = seq[f[i]]

C14_ListParamsNeverError ==
  (fetchResult.state = "resolved" /\ AllValidationsPass(query)) =>
    response.status = 200

\* The pool behind the i-th entry of data in a 200 response.
PoolOfEntry(i) ==
  filteredPools[(response.body.pagination.page - 1)
                  * response.body.pagination.limit + i]

\* The Tokens of the snapshot whose address is the given one.
TokensAt(address) ==
  { t \in Range(fetchResult.data.tokens) : t.address = address }

\* The two token sides of a pool.
Sides == {"token0", "token1"}

C16_ResolvedTokenKeepsSymbolAndDecimals ==
  Answered200 =>
    \A i \in 1..Len(response.body.data) : \A side \in Sides :
      LET resolved == TokensAt(PoolOfEntry(i)[side])
          entry    == response.body.data[i][side]
      IN /\ resolved # {} =>
              \E t \in resolved :
                /\ t.decimals \in 0..18
                /\ entry.symbol = t.symbol
                /\ entry.decimals = t.decimals
         /\ resolved = {} => (entry.symbol = "UNKNOWN" /\ entry.decimals = 18)
         /\ entry.symbol = "UNKNOWN" => resolved = {}

\* The string '<token0>-<token1>' of a pool, character by character.
SynthesizedId(pool) ==
  LET n0 == Len(pool.token0)
      n1 == Len(pool.token1)
  IN [ k \in 1..(n0 + 1 + n1) |->
         IF k <= n0 THEN pool.token0[k]
         ELSE IF k = n0 + 1 THEN "-"
         ELSE pool.token1[k - n0 - 1] ]

\* C17: in every formatted pool, id is pool.id when the pool has one and is
\* else the string '<token0>-<token1>' of the pool's two token addresses;
\* protocol is pool.dexName and network is pool.chain, as they are.
C17_IdFallbackAndVerbatimNames ==
  Answered200 =>
    \A i \in 1..Len(response.body.data) :
      LET pool  == PoolOfEntry(i)
          entry == response.body.data[i]
      IN /\ ("id" \in DOMAIN pool /\ pool.id # Null) => entry.id = pool.id
         /\ ("id" \notin DOMAIN pool \/ pool.id = Null) =>
              entry.id = SynthesizedId(pool)
         /\ entry.protocol = pool.dexName
         /\ entry.network = pool.chain

\* A response with a pool that has an id and a pool that has none.
C17_Witness ==
  /\ Answered200
  /\ Len(response.body.data) = 2
  /\ "id" \notin DOMAIN PoolOfEntry(1)
  /\ response.body.data[1].id = <<"0", "x", "A", "-", "0", "x", "c">>
  /\ response.body.data[1].protocol = "Uniswap V3"
  /\ response.body.data[1].network = "Polygon"
  /\ response.body.data[2].id = <<"0", "x", "p", "3">>
  /\ response.body.data[2].protocol = "SushiSwap"

\* The decimal digits.
DecimalDigits == << "0", "1", "2", "3", "4", "5", "6", "7", "8", "9" >>

\* The value of a decimal digit.
ValueOfDigit(c) == (CHOOSE k \in 1..10 : DecimalDigits[k] = c) - 1

\* Ten times a bigint plus a carry, worked from its last digit (position i)
\* to its first; acc holds the digits done.
RECURSIVE TimesTenPlus(_, _, _, _)
TimesTenPlus(n, i, carry, acc) ==
  IF i = 0 THEN (IF carry > 0 THEN <<carry>> \o acc ELSE acc)
  ELSE LET cur == n[i] * 10 + carry
       IN TimesTenPlus(n, i - 1, cur \div BigIntBase,
                       <<cur % BigIntBase>> \o acc)

\* The integer a string of decimal digits denotes, as a bigint; acc is the
\* value of the digits read so far.
RECURSIVE ValueOfDigits(_, _)
ValueOfDigits(ds, acc) ==
  IF ds = <<>> THEN acc
  ELSE ValueOfDigits(Tail(ds),
                     TimesTenPlus(acc, Len(acc), ValueOfDigit(Head(ds)), <<>>))

\* The numeric fields of a pool.
NumericFields == {"reserve0", "reserve1", "fee"}

\* A non-empty string of decimal digits.
IsDigitString(x) ==
  /\ x # <<>>
  /\ \A k \in 1..Len(x) : x[k] \in Range(DecimalDigits)

\* C18: in every formatted pool of a 200 response, reserve0, reserve1 and fee
\* are non-empty strings of decimal digits, and the integer each denotes is
\* exactly the pool's value, also for a value above 2^53.
C18_ReservesAndFeeAreExactDigitStrings ==
  Answered200 =>
    \A i \in 1..Len(response.body.data) : \A f \in NumericFields :
      /\ IsDigitString(response.body.data[i][f])
      /\ ValueOfDigits(response.body.data[i][f], <<0>>) = PoolOfEntry(i)[f]

\* A pool with a reserve of 2^53 + 1 (256 * 32768^3 + 1) is formatted with
\* all sixteen digits of it, and its fee and a zero reserve as digits too.
C18_Witness ==
  /\ Answered200
  /\ Len(response.body.data) = 2
  /\ PoolOfEntry(1).reserve0 = <<256, 0, 0, 1>>
  /\ response.body.data[1].reserve0 =
       << "9", "0", "0", "7", "1", "9", "9", "2", "5", "4", "7", "4", "0",
          "9", "9", "3" >>
  /\ response.body.data[1].fee = <<"5", "0", "0">>
  /\ response.body.data[2].reserve0 = <<"0">>

\* Two invocations met the same dataset: neither fetched, or both calls
\* resolved with the same snapshot.
SameDataset(r1, r2) ==
  \/ fetchResult[r1] = NotFetched /\ fetchResult[r2] = NotFetched
  \/ /\ fetchResult[r1].state = "resolved"
     /\ fetchResult[r2].state = "resolved"
     /\ fetchResult[r1].data = fetchResult[r2].data

C20_ConcurrentRequestsIsolated ==
  \A r \in Slots :
    /\ pc[r] # "idle" =>
         /\ page[r] = EffectivePage(PageParam(query[r]))
         /\ limit[r] = EffectiveLimit(LimitParam(query[r]))
    /\ response[r].status = 400 =>
         /\ fetchResult[r] = NotFetched
         /\ response[r].body.error = ValidationFailure(query[r])
    /\ response[r].status = 500 => fetchResult[r].state = "rejected"
    /\ response[r].status = 200 =>
         /\ fetchResult[r].state = "resolved"
         /\ LET snapshot == fetchResult[r].data
                kept     == SelectSeq(snapshot.pools,
                                      LAMBDA pool : Keeps(pool, query[r]))
                tokenMap == BuildTokenMap(snapshot.tokens)
                pg       == response[r].body.pagination
                data     == response[r].body.data
                offset   == (page[r] - 1) * limit[r]
            IN /\ filteredPools[r] = kept
               /\ pg.page = page[r]
               /\ pg.limit = limit[r]
               /\ pg.total = Len(kept)
               /\ pg.hasMore = (page[r] * limit[r] < Len(kept))
               /\ Len(data) = Min(limit[r], Max(0, Len(kept) - offset))
               /\ \A i \in 1..Len(data) :
                    data[i] = formatPoolResponse(kept[offset + i], tokenMap)

\* The second request to call fetchAllDexData is answered from its snapshot
\* while the first, with other parameters, is still awaiting its own.
C20_Witness ==
  /\ pc[1] = "awaiting"
  /\ fetchCalls[1] = 1
  /\ query[1].input_token = AddrB
  /\ pc[2] = "done"
  /\ fetchCalls[2] = 2
  /\ query[2].network = "polygon"
  /\ response[2].status = 200
  /\ Len(response[2].body.data) = 1
  /\ response[1] = NoResponse

\* ------------------------------------------------ properties of the fetcher

\* The pools of the resolved DexData that carry the name of source i.
PoolsFrom(i) ==
  SelectSeq(fetcherResult.pools, LAMBDA p : p.dexName = Sources[i])

\* The request of source i failed.
RequestFailed(i) == ~upstream[i].outcome.ok

\* The addresses of the tokens of the resolved DexData.
ResolvedAddresses ==
  { fetcherResult.tokens[k].address : k \in 1..Len(fetcherResult.tokens) }

\* A string of decimal digits with at most one point in it.
IsDecimalNumeral(s) ==
  /\ \A k \in 1..Len(s) : s[k] = "." \/ s[k] \in Range(DecimalDigits)
  /\ Cardinality({k \in 1..Len(s) : s[k] = "."}) <= 1

\* A record a source can process: both tokens are there, and the numeric
\* strings it converts are numerals (whole ones for Uniswap V3).
WellFormed(i, rec) ==
  /\ {"token0", "token1"} \subseteq DOMAIN rec
  /\ IF i = 1
     THEN /\ rec.liquidity = Undefined \/ IsDigitString(rec.liquidity)
          /\ rec.feeTier = Undefined \/ IsDigitString(rec.feeTier)
     ELSE /\ rec.reserve0 = Undefined \/ IsDecimalNumeral(rec.reserve0)
          /\ rec.reserve1 = Undefined \/ IsDecimalNumeral(rec.reserve1)

\* Every record of the response of source i can be processed.
CleanResponse(i) ==
  /\ upstream[i].outcome.ok
  /\ \A k \in 1..Len(upstream[i].outcome.records) :
       WellFormed(i, upstream[i].outcome.records[k])

\* C21: a call of fetchAllDexData that passed the validation never rejects,
\* whichever upstream requests fail: a rejected call has started no request;
\* a resolved DexData holds no pool of a source whose request failed and no
\* token that only such a source could have given, it holds all the pools
\* and every token address of each source whose request succeeded (one pool
\* per record, and every token of the records, when the records are all well
\* formed), and it is {tokens: [], pools: []} when all three requests failed.
C21_UpstreamFailureDegradesToEmpty ==
  /\ fetcherPc = "rejected" =>
       /\ settled = <<>>
       /\ \A i \in 1..Len(Sources) : upstream[i] = NotStarted
  /\ fetcherPc = "resolved" =>
       /\ \A i \in 1..Len(Sources) :
            IF RequestFailed(i)
            THEN PoolsFrom(i) = <<>>
            ELSE /\ PoolsFrom(i) = upstream[i].data.pools
                 /\ \A k \in 1..Len(upstream[i].data.tokens) :
                      upstream[i].data.tokens[k].address \in ResolvedAddresses
                 /\ CleanResponse(i) =>
                      /\ Len(PoolsFrom(i)) = Len(upstream[i].outcome.records)
                      /\ \A k \in 1..Len(upstream[i].outcome.records) :
                           /\ Lower(upstream[i].outcome.records[k].token0.id)
                                \in ResolvedAddresses
                           /\ Lower(upstream[i].outcome.records[k].token1.id)
                                \in ResolvedAddresses
       /\ \A a \in ResolvedAddresses :
            \E i \in 1..Len(Sources) :
              /\ ~RequestFailed(i)
              /\ \E k \in 1..Len(upstream[i].outcome.records) :
                   LET rec == upstream[i].outcome.records[k]
                   IN /\ WellFormed(i, rec)
                      /\ a \in {Lower(rec.token0.id), Lower(rec.token1.id)}
       /\ (\A i \in 1..Len(Sources) : RequestFailed(i)) =>
            fetcherResult = [tokens |-> <<>>, pools |-> <<>>]

\* The SushiSwap request alone failed, and the DexData holds the two pools of
\* Uniswap V3 and the pool of QuickSwap.
C21_Witness ==
  /\ fetcherPc = "resolved"
  /\ ~RequestFailed(1) /\ RequestFailed(2) /\ ~RequestFailed(3)
  /\ Len(PoolsFrom(1)) = 2
  /\ Len(PoolsFrom(3)) = 1
  /\ Len(fetcherResult.pools) = 3

\* The value is a string with something other than blanks in it.
NonBlank(v) ==
  /\ v # Undefined
  /\ \E k \in 1..Len(v) : v[k] # " "

\* The config argument of the call in progress gives a non-blank value for
\* the key, or the environment a non-blank value for the variable.
ConfigGives(key) == config # NoConfig /\ NonBlank(config[key])

Available(key, variable) == ConfigGives(key) \/ NonBlank(env[variable])

\* The call was rejected with this message before any request was started.
RejectedEarlyWith(text) ==
  /\ fetcherPc = "rejected"
  /\ fetcherResult = [type |-> "Error", message |-> <<text>>]
  /\ settled = <<>>
  /\ \A i \in 1..Len(Sources) : upstream[i] = NotStarted

\* C22: a call of fetchAllDexData is rejected with 'ETHEREUM_RPC_URL is
\* required' exactly when neither its config nor the environment gives a
\* non-blank Ethereum URL, and with 'POLYGON_RPC_URL is required' exactly
\* when an Ethereum URL is available and no non-blank Polygon URL is, both
\* before any upstream request is started; the URL it settles on is the
\* config value when that is non-blank, and otherwise what the environment
\* holds ('' when it holds nothing).
C22_ConfigValidation ==
  fetcherPc # "idle" =>
    /\ ~Available("ethereumRpcUrl", "ETHEREUM_RPC_URL")
         <=> RejectedEarlyWith("ETHEREUM_RPC_URL is required")
    /\ ( /\ Available("ethereumRpcUrl", "ETHEREUM_RPC_URL")
         /\ ~Available("polygonRpcUrl", "POLYGON_RPC_URL") )
         <=> RejectedEarlyWith("POLYGON_RPC_URL is required")
    /\ ( /\ Available("ethereumRpcUrl", "ETHEREUM_RPC_URL")
         /\ Available("polygonRpcUrl", "POLYGON_RPC_URL") )
         => fetcherPc \in {"fetching", "resolved"}
    /\ finalConfig.ethereumRpcUrl =
         IF ConfigGives("ethereumRpcUrl") THEN config.ethereumRpcUrl
         ELSE IF env.ETHEREUM_RPC_URL = Undefined THEN <<>>
         ELSE env.ETHEREUM_RPC_URL
    /\ finalConfig.polygonRpcUrl =
         IF ConfigGives("polygonRpcUrl") THEN config.polygonRpcUrl
         ELSE IF env.POLYGON_RPC_URL = Undefined THEN <<>>
         ELSE env.POLYGON_RPC_URL

\* The config gives a blank Ethereum URL and no Polygon URL, the environment
\* an Ethereum URL and a blank Polygon URL: the environment's Ethereum URL is
\* taken and the call is rejected for the Polygon URL.
C22_Witness ==
  /\ config # NoConfig
  /\ config.ethereumRpcUrl = <<" ">>
  /\ env.ETHEREUM_RPC_URL = <<"e">>
  /\ env.POLYGON_RPC_URL = <<" ">>
  /\ finalConfig.ethereumRpcUrl = <<"e">>
  /\ RejectedEarlyWith("POLYGON_RPC_URL is required")

\* The tokens of the three sources one after the other, in source order.
TokensInSourceOrder ==
  upstream[1].data.tokens \o upstream[2].data.tokens \o upstream[3].data.tokens

\* The first token of the address in source order.
FirstInSourceOrder(a) ==
  TokensInSourceOrder[
    CHOOSE k \in 1..Len(TokensInSourceOrder) :
      /\ TokensInSourceOrder[k].address = a
      /\ \A j \in 1..(k - 1) : TokensInSourceOrder[j].address # a ]

\* C23: in every DexData fetchAllDexData resolves with, no two tokens have
\* the same address, every token address and every token0 and token1 of a
\* pool is in lower case, an address reported more than once keeps its first
\* token in the source order Uniswap V3, SushiSwap, QuickSwap, and the
\* number of pools is the sum of the three sources' numbers of pools.
C23_UniqueLowercaseTokensAllPools ==
  fetcherPc = "resolved" =>
    LET tokens == fetcherResult.tokens
        pools  == fetcherResult.pools
    IN /\ \A j, k \in 1..Len(tokens) :
            j # k => tokens[j].address # tokens[k].address
       /\ \A k \in 1..Len(tokens) :
            /\ tokens[k].address = Lower(tokens[k].address)
            /\ tokens[k] = FirstInSourceOrder(tokens[k].address)
       /\ \A k \in 1..Len(TokensInSourceOrder) :
            TokensInSourceOrder[k].address \in ResolvedAddresses
       /\ \A k \in 1..Len(pools) :
            /\ pools[k].token0 = Lower(pools[k].token0)
            /\ pools[k].token1 = Lower(pools[k].token1)
       /\ Len(pools) = Len(upstream[1].data.pools)
                         + Len(upstream[2].data.pools)
                         + Len(upstream[3].data.pools)

\* Uniswap V3 reports 0xA as TOKEN0 and 0xa as WRAPPED0, SushiSwap and
\* QuickSwap 0xa as WRAPPED0: the DexData has one token 0xa, TOKEN0, and the
\* pool of the same pair from each of the two, five pools in all.
C23_Witness ==
  /\ fetcherPc = "resolved"
  /\ Len(upstream[1].data.tokens) = 4
  /\ Len(upstream[2].data.pools) = 2
  /\ Len(upstream[3].data.pools) = 1
  /\ Len(fetcherResult.pools) = 5
  /\ Len(fetcherResult.tokens) = 3
  /\ \E k \in 1..Len(fetcherResult.tokens) :
       /\ fetcherResult.tokens[k].address = AddrA
       /\ fetcherResult.tokens[k].symbol = "TOKEN0"

\* A digit string without its leading zeros ("0" for zero).
RECURSIVE DropLeadingZeros(_)
DropLeadingZeros(ds) ==
  IF Len(ds) > 1 /\ Head(ds) = "0" THEN DropLeadingZeros(Tail(ds))
  ELSE IF ds = <<>> THEN <<"0">> ELSE ds

\* The decimal reserve string scaled by 10^d, as a digit string: the point
\* moved d places to the right. A missing reserve counts as '0'.
ScaledByDecimals(reserveStr, d) ==
  LET str   == IF reserveStr = Undefined THEN <<"0">> ELSE reserveStr
      point == IF \E k \in 1..Len(str) : str[k] = "."
               THEN CHOOSE k \in 1..Len(str) : str[k] = "."
               ELSE Len(str) + 1
      whole == SubSeq(str, 1, point - 1)
      frac  == SubSeq(str, point + 1, Len(str))
  IN DropLeadingZeros(whole \o frac \o [k \in 1..(d - Len(frac)) |-> "0"])

\* The reserve can be scaled by 10^d without loss: it has no more than d
\* digits after the point.
ScalesExactly(reserveStr, d) ==
  \/ reserveStr = Undefined
  \/ \A k \in 1..Len(reserveStr) :
       reserveStr[k] = "." => Len(reserveStr) - k <= d

\* The decimals of an upstream token.
UpstreamDecimals(t) == parseInt(t.decimals).val

\* C25: for every pair a SushiSwap or QuickSwap response was processed
\* into a pool of, the pool's reserve0 is the upstream reserve0 string
\* scaled by 10^d with d the decimals of token0, exactly, and likewise
\* reserve1 with the decimals of token1.
C25_ReservesScaledByTokenDecimals ==
  \A i \in {2, 3} :
    (upstream[i].state = "settled" /\ CleanResponse(i)) =>
      \A k \in 1..Len(upstream[i].outcome.records) :
        LET pair == upstream[i].outcome.records[k]
            pool == upstream[i].data.pools[k]
        IN /\ ScalesExactly(pair.reserve0, UpstreamDecimals(pair.token0))
           /\ toString(pool.reserve0) =
                ScaledByDecimals(pair.reserve0, UpstreamDecimals(pair.token0))
           /\ ScalesExactly(pair.reserve1, UpstreamDecimals(pair.token1))
           /\ toString(pool.reserve1) =
                ScaledByDecimals(pair.reserve1, UpstreamDecimals(pair.token1))

\* C26: the export of a DexData fetchAllDexData resolved with, as
\* JSON.stringify(data, null, 2) written to dex_data.json, succeeds whatever
\* the DexData, with pools or without, and the file holds its tokens and its
\* pools.
C26_ExportSucceeds ==
  exportResult # NotStarted =>
    /\ exportResult.state = "written"
    /\ exportResult.tokens = fetcherResult.tokens
    /\ Len(exportResult.pools) = Len(fetcherResult.pools)

\* The pools of the sources one after the other, in source order.
PoolsInSourceOrder ==
  upstream[1].data.pools \o upstream[2].data.pools \o upstream[3].data.pools

\* The pool source i makes of the k-th record of a clean response, as far as
\* it names the record: the DEX and the two addresses in lower case.
NamesRecord(pool, i, rec) ==
  /\ pool.dexName = Sources[i]
  /\ pool.token0 = Lower(rec.token0.id)
  /\ pool.token1 = Lower(rec.token1.id)

\* C28: the three fetches settle in any order, and the call resolves only
\* when all three have settled; the resolved DexData does not depend on that
\* order: its pools are the Uniswap V3 pools, then the SushiSwap pools, then
\* the QuickSwap pools, each in the order of the upstream response, and the
\* token kept for an address is the first in that source order.
C28_ResultIndependentOfCompletionOrder ==
  /\ fetcherPc = "fetching" => fetcherResult = NotStarted
  /\ fetcherPc = "resolved" =>
       /\ \A i \in 1..Len(Sources) : upstream[i].state = "settled"
       /\ Len(settled) = Len(Sources)
       /\ fetcherResult.pools = PoolsInSourceOrder
       /\ \A j, k \in 1..Len(fetcherResult.pools) :
            LET source(p) == CHOOSE i \in 1..Len(Sources) :
                               Sources[i] = p.dexName
            IN j < k => source(fetcherResult.pools[j])
                          <= source(fetcherResult.pools[k])
       /\ \A i \in 1..Len(Sources) :
            CleanResponse(i) =>
              /\ Len(PoolsFrom(i)) = Len(upstream[i].outcome.records)
              /\ \A k \in 1..Len(PoolsFrom(i)) :
                   NamesRecord(PoolsFrom(i)[k], i, upstream[i].outcome.records[k])
       /\ \A k \in 1..Len(fetcherResult.tokens) :
            fetcherResult.tokens[k] =
              FirstInSourceOrder(fetcherResult.tokens[k].address)

\* QuickSwap settled first, then SushiSwap, Uniswap V3 last; the pools are
\* in source order all the same, and 0xa is the token of Uniswap V3.
C28_Witness ==
  /\ fetcherPc = "resolved"
  /\ settled = <<3, 2, 1>>
  /\ Len(fetcherResult.pools) = 3
  /\ fetcherResult.pools[1].dexName = "Uniswap V3"
  /\ fetcherResult.pools[2].dexName = "SushiSwap"
  /\ fetcherResult.pools[3].dexName = "QuickSwap"
  /\ \E k \in 1..Len(fetcherResult.tokens) :
       /\ fetcherResult.tokens[k].address = AddrA
       /\ fetcherResult.tokens[k].symbol = "TOKEN0"

\* The response of source i arrived and holds a record that cannot be
\* processed.
FaultyResponse(i) ==
  /\ upstream[i].state = "settled"
  /\ upstream[i].outcome.ok
  /\ ~CleanResponse(i)

\* C30: a source whose response holds one record that cannot be processed
\* (a reserve that is no decimal numeral, a missing token) contributes no
\* token and no pool, the records before the faulty one included; the other
\* sources contribute what they would have, one pool per record when their
\* records are well formed, and the call resolves: it is never rejected once
\* a request was started.
C30_SourceAllOrNothing ==
  /\ \A i \in 1..Len(Sources) :
       FaultyResponse(i) => upstream[i].data = [tokens |-> <<>>, pools |-> <<>>]
  /\ fetcherPc = "rejected" => settled = <<>>
  /\ fetcherPc = "resolved" =>
       /\ \A i \in 1..Len(Sources) :
            /\ FaultyResponse(i) => PoolsFrom(i) = <<>>
            /\ CleanResponse(i) =>
                 /\ Len(PoolsFrom(i)) = Len(upstream[i].outcome.records)
                 /\ \A k \in 1..Len(upstream[i].outcome.records) :
                      /\ Lower(upstream[i].outcome.records[k].token0.id)
                           \in ResolvedAddresses
                      /\ Lower(upstream[i].outcome.records[k].token1.id)
                           \in ResolvedAddresses
       /\ \A a \in ResolvedAddresses :
            \E i \in 1..Len(Sources) :
              /\ CleanResponse(i)
              /\ \E k \in 1..Len(upstream[i].outcome.records) :
                   LET rec == upstream[i].outcome.records[k]
                   IN a \in {Lower(rec.token0.id), Lower(rec.token1.id)}

\* The second pair of the SushiSwap response has the reserve 'abc': the pool
\* of its first pair is gone too, while the pool of Uniswap V3 and the pool
\* of QuickSwap are there.
C30_Witness ==
  /\ fetcherPc = "resolved"
  /\ FaultyResponse(2)
  /\ Len(upstream[2].outcome.records) = 2
  /\ WellFormed(2, upstream[2].outcome.records[1])
  /\ upstream[2].outcome.records[2].reserve0 = <<"a", "b", "c">>
  /\ CleanResponse(1) /\ CleanResponse(3)
  /\ PoolsFrom(2) = <<>>
  /\ Len(PoolsFrom(1)) = 1
  /\ Len(PoolsFrom(3)) = 1
  /\ Len(fetcherResult.pools) = 2

\* The handler answered 200 from the DexData the fetcher resolved with.
ServedByFetcher ==
  /\ pc = "done"
  /\ fetcherPc = "resolved"
  /\ fetchResult.state = "resolved"
  /\ fetchResult.data = fetcherResult
  /\ response.status = 200

\* C29: no pool of a DexData fetchAllDexData resolves with has an id or a
\* factory, and its chain is 'Ethereum' or 'Polygon'; so a request the API
\* answers from such a DexData has total 0 and no data whenever its factory
\* or pool parameter is non-empty (the fallback id given as pool included),
\* and every pool it returns has factory null and the id
\* '<token0>-<token1>'.
C29_FetcherPoolsHaveNoIdOrFactory ==
  /\ fetcherPc = "resolved" =>
       \A k \in 1..Len(fetcherResult.pools) :
         /\ "id" \notin DOMAIN fetcherResult.pools[k]
         /\ "factory" \notin DOMAIN fetcherResult.pools[k]
         /\ fetcherResult.pools[k].chain \in {"Ethereum", "Polygon"}
  /\ ServedByFetcher =>
       /\ (query.factory \notin {Undefined, <<>>} \/ query.pool \notin {Undefined, <<>>}) =>
            /\ response.body.pagination.total = 0
            /\ response.body.data = <<>>
       /\ \A k \in 1..Len(response.body.data) :
            LET entry == response.body.data[k]
            IN /\ entry.factory = Null
               /\ entry.id = entry.token0.address \o <<"-">> \o entry.token1.address

\* Uniswap V3, SushiSwap and QuickSwap each list the pair 0xa, 0xb: the
\* response holds three pools with the same id 0xa-0xb.
C29_Witness ==
  /\ ServedByFetcher
  /\ Len(response.body.data) >= 3
  /\ \E i, j \in 1..Len(response.body.data) :
       /\ i # j
       /\ response.body.data[i].id = response.body.data[j].id
       /\ response.body.data[i].protocol # response.body.data[j].protocol
       /\ response.body.data[i].id = <<"0", "x", "a", "-", "0", "x", "b">>

\* The fallback id given as the pool parameter matches nothing, although the
\* DexData holds pools that are returned under that id.
C29_WitnessPoolFilter ==
  /\ ServedByFetcher
  /\ query.pool = <<"0", "x", "a", "-", "0", "x", "b">>
  /\ response.body.pagination.total = 0
  /\ \E k \in 1..Len(fetcherResult.pools) :
       /\ fetcherResult.pools[k].token0 = AddrA
       /\ fetcherResult.pools[k].token1 = AddrB

\* ----------------------------------------------- properties of the registry

\* The keys of a Map, and the value under a key.
MapKeys(entries) == { entries[k].key : k \in 1..Len(entries) }

MapGet(entries, key) ==
  entries[CHOOSE k \in 1..Len(entries) : entries[k].key = key].value

\* What the three functions say of an address.
RegistryFacts(address) ==
  << isMonitoredToken(address),
     getTokenInfo(address).defined,
     Lower(address) \in MapKeys(getMonitoredTokensMap.entries) >>

\* C24: whatever calls of the registry's functions came before, for the
\* address of a call isMonitoredToken is true, getTokenInfo is defined and
\* the map of getMonitoredTokensMap has the address in lower case as a key,
\* all three or none, and the same for any other spelling of the address;
\* getTokenInfo returns the object stored under that key; the map is the
\* one instance of the module, with one entry per monitored token under its
\* address in lower case; and the value the call returned is the one these
\* facts give.
C24_RegistryFunctionsAgree ==
  /\ getMonitoredTokensMap.instance = "MONITORED_TOKENS_MAP"
  /\ Len(getMonitoredTokensMap.entries) = Len(MONITORED_TOKENS)
  /\ \A k \in 1..Len(MONITORED_TOKENS) :
       /\ getMonitoredTokensMap.entries[k].key = Lower(MONITORED_TOKENS[k].address)
       /\ getMonitoredTokensMap.entries[k].value = k
       /\ \A j \in 1..Len(MONITORED_TOKENS) :
            j # k => getMonitoredTokensMap.entries[j].key
                       # getMonitoredTokensMap.entries[k].key
  /\ registryCall # NoCall =>
       /\ registryReturn.fn = registryCall.fn
       /\ registryCall.fn = "getMonitoredTokensMap" =>
            /\ registryReturn.value.instance = "MONITORED_TOKENS_MAP"
            /\ registryReturn.value = getMonitoredTokensMap
       /\ registryCall.fn # "getMonitoredTokensMap" =>
            LET a     == registryCall.address
                lower == Lower(a)
                known == lower \in MapKeys(getMonitoredTokensMap.entries)
            IN /\ RegistryFacts(a) = <<known, known, known>>
               /\ \A b \in RegistryAddresses :
                    Lower(b) = lower =>
                      /\ RegistryFacts(b) = RegistryFacts(a)
                      /\ getTokenInfo(b) = getTokenInfo(a)
               /\ known =>
                    /\ getTokenInfo(a).object
                         = MapGet(getMonitoredTokensMap.entries, lower)
                    /\ getTokenInfo(a).token
                         = MONITORED_TOKENS[getTokenInfo(a).object]
               /\ registryCall.fn = "isMonitoredToken" =>
                    registryReturn.value = known
               /\ registryCall.fn = "getTokenInfo" =>
                    registryReturn.value = getTokenInfo(a)

\* getTokenInfo called with the address of WETH in upper case returns the
\* WETH object, the fifth of the array, which the map holds under the
\* address in lower case.
C24_Witness ==
  /\ registryCall # NoCall
  /\ registryCall.fn = "getTokenInfo"
  /\ registryCall.address # MONITORED_TOKENS[5].address
  /\ Len(registryCall.address) = 42
  /\ registryCall.address[2] = "X"
  /\ registryReturn.value.defined
  /\ registryReturn.value.object = 5
  /\ registryReturn.value.token.symbol = "WETH"
  /\ MapGet(getMonitoredTokensMap.entries, Lower(registryCall.address)) = 5

\* ------------------------------------------------- properties of the client

\* The pools of the client's dataset that pass its filters, as the API
\* formats them: what the client is to end up with.
ClientFullList ==
  LET kept   == SelectSeq(client.dataset.pools,
                          LAMBDA pool : Keeps(pool, client.filters))
      tokens == BuildTokenMap(client.dataset.tokens)
  IN [i \in 1..Len(kept) |-> formatPoolResponse(kept[i], tokens)]

\* The limit the client pages with: one digit, or the default of 10.
ClientLimit ==
  IF client.filters.limit = Undefined THEN 10
  ELSE ValueOfDigit(client.filters.limit[1])

\* max(1, ceil(total / limit))
RequestsNeeded ==
  IF Len(ClientFullList) = 0 THEN 1
  ELSE (Len(ClientFullList) + ClientLimit - 1) \div ClientLimit

\* C27: a client that asks for page 1, 2, 3, ... with the same limit and
\* filters from an unchanged dataset, and stops at the first hasMore =
\* false, never makes more than max(1, ceil(total / limit)) requests and has
\* made exactly that many when it stops; what it has gathered after each
\* answer is the filtered list up to the end of the page answered, and the
\* whole list, every pool once and in order, when it stops; after an answer
\* with hasMore = true the next page holds a pool, after one with hasMore =
\* false no later page does.
C27_ClientPaginationLoop ==
  (client.state \in {"looping", "finished"} /\ ClientLimit >= 1) =>
    LET total    == Len(ClientFullList)
        answered == (client.page - 1) * ClientLimit
    IN /\ client.requests <= RequestsNeeded
       /\ client.state = "finished" =>
            /\ client.requests = RequestsNeeded
            /\ client.allPools = ClientFullList
            /\ ~client.hasMore
       /\ ~client.waiting =>
            /\ client.requests = client.page - 1
            /\ client.allPools = SubSeq(ClientFullList, 1, Min(total, answered))
            /\ client.requests >= 1 =>
                 /\ client.hasMore => answered < total
                 /\ ~client.hasMore => answered >= total
                 /\ client.hasMore <=> client.state = "looping"

\* Three pools pass the filters and the limit is 1: the client stops after
\* three requests with the three pools.
C27_Witness ==
  /\ client.state = "finished"
  /\ client.filters.limit = <<"1">>
  /\ client.requests = 3
  /\ Len(client.allPools) = 3
  /\ client.allPools = ClientFullList

====
